---- MODULE Spec2Model ----
(***************************************************************************)
(* The billing allowance ledger of VibeAny (apps/api/app/services/          *)
(* billing_service.py and its callers).  The committed database is the     *)
(* variable db; every handler runs in its own SQLAlchemy session, whose     *)
(* writes reach db only at commit and are dropped when the session is       *)
(* rolled back or closed.                                                   *)
(***************************************************************************)
EXTENDS Integers, Sequences, FiniteSets, TLC

VARIABLES db, now, ticks, last, sess, hist

vars == <<db, now, ticks, last, sess, hist>>

-----------------------------------------------------------------------------
(* Bounds of the model *)

MaxEvents == 2
MaxAllowances == 4
MaxBuckets == 2
MaxTicks == 1
MaxFreeEvents == 4
MaxConcAllowances == 3
MaxRetryEvents == 4
MaxRetryAllowances == 3
MaxActAllowances == 9
MaxActBuckets == 2
MaxPayments == 2
MaxPayAllowances == 3
MaxTransitionEvents == 2
MaxTransitionAllowances == 6
MaxTransitionBuckets == 3
MaxOrderEvents == 2
MaxOrderAllowances == 4
MaxOrderBuckets == 4
MaxPaygEvents == 4
MaxPaygAllowances == 1
MaxLedgerEvents == 2
MaxLedgerAllowances == 3
MaxLedgerBuckets == 2
MaxLedgerRevoked == 1
MaxBalanceEvents == 1
MaxBalanceAllowances == 3
MaxBalanceBuckets == 4
MaxUsageEvents == 3
MaxUsageAllowances == 3
MaxUsageBuckets == 2
MaxJobEvents == 4
MaxJobAllowances == 2
MaxCapEvents == 4
MaxPayConcAllowances == 3
MaxSharedEvents == 3
MaxSharedAllowances == 4
MaxSharedBuckets == 2

-----------------------------------------------------------------------------
(* Values *)

Users == {"u1"}
Sessions == {"s1", "s2"}
Types == {"BC", "RC", "Usage"}
Null == -1
NoHash == <<"none", 0>>
NoPlan == "none"

H1 == <<"h", 1>>

\* the calls offered to consume: credit type, amount, action_hash, allow_payg
ConsumeInputs ==
    {<<"BC", 150, H1, TRUE>>, <<"BC", 150, NoHash, TRUE>>, <<"BC", 150, NoHash, FALSE>>,
     <<"Usage", 40, H1, TRUE>>, <<"Usage", 40, NoHash, FALSE>>, <<"BC", 0, NoHash, TRUE>>}
\* the calls offered to would_consume: credit type, amount
WouldInputs == {<<"BC", 150>>, <<"BC", 0>>}
PlanChoices == {"Pro"}
PackageChoices == {"starter", "unknown"}
TickDays == {1, 30}

DEFAULT_PLAN_SEEDS ==
    [Free |-> [name |-> "Free", bc_monthly |-> 0, rc_monthly |-> 0,
               trial_days |-> 0, payg_enabled |-> TRUE, bonus_num |-> 2, bonus_den |-> 10],
     Pro |-> [name |-> "Pro", bc_monthly |-> 400, rc_monthly |-> 6000,
              trial_days |-> 1, payg_enabled |-> TRUE, bonus_num |-> 2, bonus_den |-> 10],
     Scale |-> [name |-> "Scale", bc_monthly |-> 1000, rc_monthly |-> 12000,
                trial_days |-> 1, payg_enabled |-> TRUE, bonus_num |-> 2, bonus_den |-> 10],
     Enterprise |-> [name |-> "Enterprise", bc_monthly |-> 2500, rc_monthly |-> 36000,
                     trial_days |-> 0, payg_enabled |-> TRUE, bonus_num |-> 2, bonus_den |-> 10]]

RECHARGE_PACKAGES_BY_ID ==
    [starter |-> [points |-> 500], creator |-> [points |-> 1500], studio |-> [points |-> 4000]]

auto_fix_daily_limit == 3
free_daily_bc == 1
PeriodDays == 30
OneCycleDays == 30
AnnualDays == 365

-----------------------------------------------------------------------------
(* Generic helpers *)

Min(a, b) == IF a <= b THEN a ELSE b
Max(a, b) == IF a >= b THEN a ELSE b

RECURSIVE SumOver(_, _)
\* the sum of f[i] over the finite index set S
SumOver(f, S) ==
    IF S = {} THEN 0
    ELSE LET i == CHOOSE x \in S : TRUE IN f[i] + SumOver(f, S \ {i})

\* ORDER BY expires_at ASC NULLS LAST, created_at ASC; rows are stored in
\* creation order, so the row index stands for created_at
SortsBefore(tab, i, j) ==
    LET ei == tab[i].expires_at
        ej == tab[j].expires_at
    IN  IF ei = ej THEN i < j
        ELSE IF ei = Null THEN FALSE
        ELSE IF ej = Null THEN TRUE
        ELSE ei < ej

RECURSIVE OrderByExpiry(_, _)
OrderByExpiry(tab, S) ==
    IF S = {} THEN <<>>
    ELSE LET m == CHOOSE i \in S : \A j \in S \ {i} : SortsBefore(tab, i, j)
         IN  <<m>> \o OrderByExpiry(tab, S \ {m})

NotExpired(row, t) == row.expires_at = Null \/ row.expires_at > t

-----------------------------------------------------------------------------
(* Rows.  A table is a sequence in creation order; a row's id is its index. *)

EmptyDb ==
    [allowances |-> <<>>, buckets |-> <<>>, events |-> <<>>, charges |-> <<>>,
     autofix |-> <<>>, subs |-> <<>>, txs |-> <<>>, payments |-> <<>>,
     plans |-> <<>>, readings |-> <<>>, summaries |-> <<>>]

\* max(allowance.total - allowance.used, 0)
AllowanceAvailable(a) == Max(a.total - a.used, 0)

\* get_primary_subscription without the filter on status
get_primary_subscription_any_status(d, u) ==
    LET S == {i \in DOMAIN d.subs :
                 /\ d.subs[i].user = u
                 /\ d.subs[i].is_primary}
    IN  IF S = {} THEN 0 ELSE CHOOSE i \in S : \A j \in S : j <= i

get_primary_subscription(d, u) ==
    LET S == {i \in DOMAIN d.subs :
                 /\ d.subs[i].user = u
                 /\ d.subs[i].is_primary
                 /\ d.subs[i].status \in {"active", "trialing"}}
    IN  IF S = {} THEN 0 ELSE CHOOSE i \in S : \A j \in S : j <= i

\* _iter_allowances ordered by creation alone
iter_allowances_by_creation(d, u, t, tnow) ==
    LET S == {i \in DOMAIN d.allowances :
                 /\ d.allowances[i].user = u
                 /\ d.allowances[i].type = t
                 /\ NotExpired(d.allowances[i], tnow)}
    IN  [k \in 1..Cardinality(S) |->
            CHOOSE i \in S : Cardinality({j \in S : j < i}) = k - 1]

iter_allowances(d, u, t, tnow) ==
    OrderByExpiry(d.allowances,
        {i \in DOMAIN d.allowances :
            /\ d.allowances[i].user = u
            /\ d.allowances[i].type = t
            /\ NotExpired(d.allowances[i], tnow)})

\* _iter_rollover_buckets with the latest expiry first
iter_rollover_buckets_latest_first(d, u, t, tnow) ==
    LET order == OrderByExpiry(d.buckets,
                     {i \in DOMAIN d.buckets :
                         /\ d.buckets[i].user = u
                         /\ d.allowances[d.buckets[i].allowance_id].type = t
                         /\ NotExpired(d.buckets[i], tnow)
                         /\ d.buckets[i].remain > 0})
    IN  [k \in 1..Len(order) |-> order[Len(order) + 1 - k]]

iter_rollover_buckets(d, u, t, tnow) ==
    OrderByExpiry(d.buckets,
        {i \in DOMAIN d.buckets :
            /\ d.buckets[i].user = u
            /\ d.allowances[d.buckets[i].allowance_id].type = t
            /\ NotExpired(d.buckets[i], tnow)
            /\ d.buckets[i].remain > 0})

rollover_available(d, u, t, tnow) ==
    LET S == {i \in DOMAIN d.buckets :
                 /\ d.buckets[i].user = u
                 /\ d.allowances[d.buckets[i].allowance_id].type = t
                 /\ NotExpired(d.buckets[i], tnow)}
    IN  SumOver([i \in S |-> d.buckets[i].remain], S)

\* would_consume summing the allowances whatever their expiry
would_consume_counting_expired(d, u, t, amount, tnow) ==
    IF amount <= 0 THEN [result |-> "invalid", available |-> 0, rollover |-> 0]
    ELSE LET S == {i \in DOMAIN d.allowances :
                      d.allowances[i].user = u /\ d.allowances[i].type = t}
             total_available == SumOver([i \in S |-> Max(d.allowances[i].total
                                                          - d.allowances[i].used, 0)], S)
             B == {i \in DOMAIN d.buckets :
                      /\ d.buckets[i].user = u
                      /\ d.allowances[d.buckets[i].allowance_id].type = t
                      /\ (d.buckets[i].expires_at = Null \/ d.buckets[i].expires_at > tnow)}
             rollover == SumOver([i \in B |-> d.buckets[i].remain], B)
         IN  [result |-> "ok", available |-> total_available + rollover, rollover |-> rollover]

\* a pre-check that reports what the allowances were granted, used or not
would_consume_ignoring_used(d, u, t, amount, tnow) ==
    IF amount <= 0 THEN [result |-> "invalid", available |-> 0, rollover |-> 0]
    ELSE LET order == iter_allowances(d, u, t, tnow)
             S == {order[k] : k \in DOMAIN order}
             total_available == SumOver([i \in S |-> d.allowances[i].total], S)
             rollover == rollover_available(d, u, t, tnow)
         IN  [result |-> "ok", available |-> total_available + rollover, rollover |-> rollover]

\* would_consume: (available, rollover_available), or the ValueError
would_consume(d, u, t, amount, tnow) ==
    IF amount <= 0 THEN [result |-> "invalid", available |-> 0, rollover |-> 0]
    ELSE LET order == iter_allowances(d, u, t, tnow)
             S == {order[k] : k \in DOMAIN order}
             total_available == SumOver([i \in S |-> AllowanceAvailable(d.allowances[i])], S)
             rollover == rollover_available(d, u, t, tnow)
         IN  [result |-> "ok", available |-> total_available + rollover, rollover |-> rollover]

-----------------------------------------------------------------------------
(* consume, step by step *)

\* the deduction without its clamp to what the bucket still holds
BucketDeductUnclamped(remain, remaining) == remaining

BucketDeduct(remain, remaining) == Min(remain, remaining)

\* the deduction without its clamp to what the allowance still holds
AllowanceDeductUnclamped(available, remaining) == remaining

AllowanceDeduct(available, remaining) == Min(available, remaining)

RECURSIVE DrainBucketsLoop(_, _, _, _)
DrainBucketsLoop(buckets, order, remaining, deducted) ==
    IF order = <<>> \/ remaining <= 0
    THEN [buckets |-> buckets, remaining |-> remaining, total_deducted |-> deducted]
    ELSE LET i == Head(order)
         IN  IF buckets[i].remain <= 0
             THEN DrainBucketsLoop(buckets, Tail(order), remaining, deducted)
             ELSE LET deduct == BucketDeduct(buckets[i].remain, remaining)
                  IN  DrainBucketsLoop([buckets EXCEPT ![i].remain = @ - deduct],
                                       Tail(order), remaining - deduct, deducted + deduct)

RECURSIVE DrainAllowancesLoop(_, _, _, _, _)
DrainAllowancesLoop(allowances, order, remaining, deducted, last_allowance) ==
    IF order = <<>> \/ remaining <= 0
    THEN [allowances |-> allowances, remaining |-> remaining,
          total_deducted |-> deducted, last_allowance |-> last_allowance]
    ELSE LET i == Head(order)
             available == AllowanceAvailable(allowances[i])
         IN  IF available <= 0
             THEN DrainAllowancesLoop(allowances, Tail(order), remaining, deducted, last_allowance)
             ELSE LET deduct == AllowanceDeduct(available, remaining)
                  IN  DrainAllowancesLoop([allowances EXCEPT ![i].used = @ + deduct],
                                          Tail(order), remaining - deduct, deducted + deduct, i)

\* consume without its rollover step
DrainBucketsSkipped(d, u, t, amount, tnow) ==
    [db |-> d, remaining |-> amount, total_deducted |-> 0]

\* Step 1 of consume: rollover buckets first
DrainBuckets(d, u, t, amount, tnow) ==
    LET r == DrainBucketsLoop(d.buckets, iter_rollover_buckets(d, u, t, tnow), amount, 0)
    IN  [db |-> [d EXCEPT !.buckets = r.buckets],
         remaining |-> r.remaining, total_deducted |-> r.total_deducted]

\* Step 2 of consume: current cycle allowances
DrainAllowances(d, u, t, remaining, deducted, tnow) ==
    LET r == DrainAllowancesLoop(d.allowances, iter_allowances(d, u, t, tnow),
                                 remaining, deducted, 0)
    IN  [db |-> [d EXCEPT !.allowances = r.allowances],
         remaining |-> r.remaining, total_deducted |-> r.total_deducted,
         last_allowance |-> r.last_allowance]

AutofixRow(d, u, date_key) ==
    LET S == {i \in DOMAIN d.autofix :
                 d.autofix[i].user = u /\ d.autofix[i].date_key = date_key}
    IN  IF S = {} THEN 0 ELSE CHOOSE i \in S : TRUE

AutofixLimit(sub) == auto_fix_daily_limit

\* _apply_autofix with the limit test off by one (> for >=)
apply_autofix_off_by_one(d, sub, u, tnow) ==
    LET limit == AutofixLimit(sub)
        i == AutofixRow(d, u, tnow)
        consumed == IF i = 0 THEN 0 ELSE d.autofix[i].consumed
    IN  IF consumed > limit
        THEN [ok |-> FALSE, db |-> d, record |-> 0]
        ELSE IF i = 0
             THEN [ok |-> TRUE,
                   db |-> [d EXCEPT !.autofix = Append(@,
                              [user |-> u, date_key |-> tnow, limit |-> limit, consumed |-> 1])],
                   record |-> Len(d.autofix) + 1]
             ELSE [ok |-> TRUE,
                   db |-> [d EXCEPT !.autofix[i].consumed = @ + 1],
                   record |-> i]

\* _apply_autofix: the day's counter, created at 0 when missing; raises at the limit
apply_autofix(d, sub, u, tnow) ==
    LET limit == AutofixLimit(sub)
        i == AutofixRow(d, u, tnow)
        consumed == IF i = 0 THEN 0 ELSE d.autofix[i].consumed
    IN  IF consumed >= limit
        THEN [ok |-> FALSE, db |-> d, record |-> 0]
        ELSE IF i = 0
             THEN [ok |-> TRUE,
                   db |-> [d EXCEPT !.autofix = Append(@,
                              [user |-> u, date_key |-> tnow, limit |-> limit, consumed |-> 1])],
                   record |-> Len(d.autofix) + 1]
             ELSE [ok |-> TRUE,
                   db |-> [d EXCEPT !.autofix[i].consumed = @ + 1],
                   record |-> i]

\* the charge built but never added to the session
create_payg_charge_not_added(d, u, t, amount) == d

create_payg_charge(d, u, t, amount) ==
    [d EXCEPT !.charges = Append(@,
        [user |-> u, metric |-> t, amount |-> amount, status |-> "pending"])]

\* the action_hash of a new event: the caller's, or one made from the clock
EventHash(d, h) == IF h = NoHash THEN <<"gen", Len(d.events) + 1>> ELSE h

\* _log_consumption_event that records no allowance
log_consumption_event_without_allowance(d, u, allowance, t, amount, h, autofix, charge, tnow) ==
    [d EXCEPT !.events = Append(@,
        [user |-> u, allowance_id |-> 0, allowance_type |-> t, amount |-> amount,
         action_hash |-> EventHash(d, h), autofix_applied |-> autofix,
         payg_charge_id |-> charge, day |-> tnow])]

log_consumption_event(d, u, allowance, t, amount, h, autofix, charge, tnow) ==
    [d EXCEPT !.events = Append(@,
        [user |-> u, allowance_id |-> allowance, allowance_type |-> t, amount |-> amount,
         action_hash |-> EventHash(d, h), autofix_applied |-> autofix,
         payg_charge_id |-> charge, day |-> tnow])]

\* consume without its action_hash lookup
ExistingEventSkipped(d, h) == 0

ExistingEvent(d, h) ==
    LET S == {i \in DOMAIN d.events : d.events[i].action_hash = h}
    IN  IF h = NoHash \/ S = {} THEN 0 ELSE CHOOSE i \in S : TRUE

\* an unmet remainder that is neither covered nor refused: the event is logged
ConsumeFallbackSilent(d, u, t, amount, h, allow_payg, dr, tnow) ==
    [total_deducted |-> dr.total_deducted, event |-> Len(d.events) + 1, charge |-> 0,
     autofix |-> 0, result |-> "ok",
     session |-> log_consumption_event(dr.db, u, dr.last_allowance, t, amount, h,
                                       FALSE, 0, tnow)]

\* What remains of consume once the pools are drained: the fallback for an
\* unmet remainder and the event.  "session" is the session's view when
\* consume returns or raises; nothing of it is committed on a raise.
\* the fallback with PAYG tried before the Free plan's Auto-fix
ConsumeFallbackPaygFirst(d, u, t, amount, h, allow_payg, dr, tnow) ==
    LET sub == get_primary_subscription(dr.db, u)
        free == sub # 0 /\ d.subs[sub].plan = "Free"
        payg == sub # 0 /\ d.subs[sub].payg_enabled /\ allow_payg
        fix == apply_autofix(dr.db, sub, u, tnow)
        base == [total_deducted |-> dr.total_deducted, event |-> 0, charge |-> 0,
                 autofix |-> 0]
    IN  IF dr.remaining <= 0
        THEN [base EXCEPT !.event = Len(d.events) + 1] @@
             [result |-> "ok",
              session |-> log_consumption_event(dr.db, u, dr.last_allowance, t, amount, h,
                                                FALSE, 0, tnow)]
        ELSE IF payg
        THEN [base EXCEPT !.event = Len(d.events) + 1, !.charge = Len(d.charges) + 1] @@
             [result |-> "ok",
              session |-> log_consumption_event(
                              create_payg_charge(dr.db, u, t, dr.remaining),
                              u, dr.last_allowance, t, amount, h, FALSE,
                              Len(d.charges) + 1, tnow)]
        ELSE IF free
        THEN IF fix.ok
             THEN [base EXCEPT !.event = Len(d.events) + 1, !.autofix = fix.record] @@
                  [result |-> "ok",
                   session |-> log_consumption_event(fix.db, u, dr.last_allowance, t, amount,
                                                     h, TRUE, 0, tnow)]
             ELSE base @@ [result |-> "autofix_limit", session |-> dr.db]
        ELSE base @@ [result |-> "exhausted", session |-> dr.db]

ConsumeFallback(d, u, t, amount, h, allow_payg, dr, tnow) ==
    LET sub == get_primary_subscription(dr.db, u)
        free == sub # 0 /\ d.subs[sub].plan = "Free"
        payg == sub # 0 /\ d.subs[sub].payg_enabled /\ allow_payg
        fix == apply_autofix(dr.db, sub, u, tnow)
        base == [total_deducted |-> dr.total_deducted, event |-> 0, charge |-> 0,
                 autofix |-> 0]
    IN  IF dr.remaining <= 0
        THEN [base EXCEPT !.event = Len(d.events) + 1] @@
             [result |-> "ok",
              session |-> log_consumption_event(dr.db, u, dr.last_allowance, t, amount, h,
                                                FALSE, 0, tnow)]
        ELSE IF free
        THEN IF fix.ok
             THEN [base EXCEPT !.event = Len(d.events) + 1, !.autofix = fix.record] @@
                  [result |-> "ok",
                   session |-> log_consumption_event(fix.db, u, dr.last_allowance, t, amount,
                                                     h, TRUE, 0, tnow)]
             ELSE base @@ [result |-> "autofix_limit", session |-> dr.db]
        ELSE IF payg
        THEN [base EXCEPT !.event = Len(d.events) + 1, !.charge = Len(d.charges) + 1] @@
             [result |-> "ok",
              session |-> log_consumption_event(
                              create_payg_charge(dr.db, u, t, dr.remaining),
                              u, dr.last_allowance, t, amount, h, FALSE,
                              Len(d.charges) + 1, tnow)]
        ELSE base @@ [result |-> "exhausted", session |-> dr.db]

\* the unique constraints without the one on consumption_events.action_hash
UniqueOkWithoutActionHash(d) ==
    /\ \A i, j \in DOMAIN d.autofix :
           (d.autofix[i].user = d.autofix[j].user
              /\ d.autofix[i].date_key = d.autofix[j].date_key) => i = j
    /\ \A i, j \in DOMAIN d.subs :
           (d.subs[i].user = d.subs[j].user /\ d.subs[i].plan = d.subs[j].plan) => i = j
    /\ \A i, j \in DOMAIN d.allowances :
           (/\ d.allowances[i].user = d.allowances[j].user
            /\ d.allowances[i].plan = d.allowances[j].plan
            /\ d.allowances[i].plan # NoPlan
            /\ d.allowances[i].type = d.allowances[j].type
            /\ d.allowances[i].source = d.allowances[j].source) => i = j
    /\ \A i, j \in DOMAIN d.plans :
           (d.plans[i].id = d.plans[j].id \/ d.plans[i].name = d.plans[j].name) => i = j

\* the unique constraints without the primary key and the unique name of plans
UniqueOkWithoutPlanKey(d) ==
    /\ \A i, j \in DOMAIN d.events :
           d.events[i].action_hash = d.events[j].action_hash => i = j
    /\ \A i, j \in DOMAIN d.autofix :
           (d.autofix[i].user = d.autofix[j].user
              /\ d.autofix[i].date_key = d.autofix[j].date_key) => i = j
    /\ \A i, j \in DOMAIN d.subs :
           (d.subs[i].user = d.subs[j].user /\ d.subs[i].plan = d.subs[j].plan) => i = j
    /\ \A i, j \in DOMAIN d.allowances :
           (/\ d.allowances[i].user = d.allowances[j].user
            /\ d.allowances[i].plan = d.allowances[j].plan
            /\ d.allowances[i].plan # NoPlan
            /\ d.allowances[i].type = d.allowances[j].type
            /\ d.allowances[i].source = d.allowances[j].source) => i = j

\* The unique constraints a flush must satisfy: consumption_events.action_hash,
\* uq_autofix_user_date, uq_user_plan_membership, uq_allowance_user_plan_type
\* (a NULL plan_id never collides), and the primary key and unique name of plans
UniqueOk(d) ==
    /\ \A i, j \in DOMAIN d.events :
           d.events[i].action_hash = d.events[j].action_hash => i = j
    /\ \A i, j \in DOMAIN d.autofix :
           (d.autofix[i].user = d.autofix[j].user
              /\ d.autofix[i].date_key = d.autofix[j].date_key) => i = j
    /\ \A i, j \in DOMAIN d.subs :
           (d.subs[i].user = d.subs[j].user /\ d.subs[i].plan = d.subs[j].plan) => i = j
    /\ \A i, j \in DOMAIN d.allowances :
           (/\ d.allowances[i].user = d.allowances[j].user
            /\ d.allowances[i].plan = d.allowances[j].plan
            /\ d.allowances[i].plan # NoPlan
            /\ d.allowances[i].type = d.allowances[j].type
            /\ d.allowances[i].source = d.allowances[j].source) => i = j
    /\ \A i, j \in DOMAIN d.plans :
           (d.plans[i].id = d.plans[j].id \/ d.plans[i].name = d.plans[j].name) => i = j

\* BillingService.consume in a fresh session, up to its commit
consume(d, u, t, amount, h, allow_payg, tnow) ==
    LET existing == ExistingEvent(d, h)
        b == DrainBuckets(d, u, t, amount, tnow)
        dr == DrainAllowances(b.db, u, t, b.remaining, b.total_deducted, tnow)
        r == ConsumeFallback(d, u, t, amount, h, allow_payg, dr, tnow)
    IN  IF amount <= 0
        THEN [result |-> "invalid", total_deducted |-> 0, event |-> 0, charge |-> 0,
              autofix |-> 0, session |-> d]
        ELSE IF existing # 0
        THEN [result |-> "replay", total_deducted |-> d.events[existing].amount,
              event |-> existing, charge |-> 0, autofix |-> 0, session |-> d]
        ELSE IF r.result = "ok" /\ ~UniqueOk(r.session)
        THEN [r EXCEPT !.result = "integrity_error", !.event = 0, !.charge = 0,
                       !.autofix = 0]
        ELSE r

\* a failed call whose drained buckets and allowances are committed all the same
AfterConsumeKeepsDrained(d, r) ==
    IF r.result \in {"ok", "exhausted"} THEN r.session ELSE d

\* a caller that commits its session whatever consume did
AfterConsumeCommitsSession(d, r) == r.session

\* What the caller's session leaves in the database: consume commits before it
\* returns; a raise reaches the request handler, which rolls the session back
\* (act.py) or closes it (get_db), so nothing of the session is written.
AfterConsume(d, r) == IF r.result = "ok" THEN r.session ELSE d

-----------------------------------------------------------------------------
(* Allowance lifecycle *)

\* grant_allowance: a new row with used = 0; ValueError when total <= 0
\* a grant that skips the check of total
grant_allowance_unchecked(d, u, plan, t, total, policy, expires_at, source) ==
    [ok |-> TRUE,
     db |-> [d EXCEPT !.allowances = Append(@,
               [user |-> u, plan |-> plan, type |-> t, total |-> total, used |-> 0,
                rollover_policy |-> policy, expires_at |-> expires_at,
                source |-> source])]]

grant_allowance(d, u, plan, t, total, policy, expires_at, source) ==
    IF total <= 0
    THEN [ok |-> FALSE, db |-> d]
    ELSE [ok |-> TRUE,
          db |-> [d EXCEPT !.allowances = Append(@,
                    [user |-> u, plan |-> plan, type |-> t, total |-> total, used |-> 0,
                     rollover_policy |-> policy, expires_at |-> expires_at,
                     source |-> source])]]

calculate_rollover_expiry(current_period_end, policy) ==
    IF policy = "1_cycle" THEN current_period_end + OneCycleDays
    ELSE IF policy = "annual" THEN current_period_end + AnnualDays
    ELSE current_period_end

\* the carry-over taken from total alone
RolloverRemainingIgnoresUsed(a) == a.total

\* the leftover of the prior cycle that _upsert_allowance carries over
RolloverRemaining(a) == Max(a.total - a.used, 0)

\* _upsert_allowance that carries the leftover over whatever the policy
upsert_allowance_any_policy(d, u, plan, t, total, policy, expires_at, source) ==
    LET S == {i \in DOMAIN d.allowances :
                 /\ d.allowances[i].user = u
                 /\ d.allowances[i].plan = plan
                 /\ d.allowances[i].type = t}
        e == IF S = {} THEN 0 ELSE CHOOSE i \in S : \A j \in S : i <= j
        remaining == RolloverRemaining(d.allowances[e])
        withBucket ==
            IF remaining > 0
            THEN [d EXCEPT !.buckets = Append(@,
                     [user |-> u, allowance_id |-> e, remain |-> remaining,
                      expires_at |-> calculate_rollover_expiry(expires_at, policy)])]
            ELSE d
    IN  IF e = 0
        THEN grant_allowance(d, u, plan, t, total, policy, expires_at, source).db
        ELSE [withBucket EXCEPT !.allowances[e].total = total,
                                !.allowances[e].used = 0,
                                !.allowances[e].rollover_policy = policy,
                                !.allowances[e].expires_at = expires_at]

upsert_allowance(d, u, plan, t, total, policy, expires_at, source) ==
    LET S == {i \in DOMAIN d.allowances :
                 /\ d.allowances[i].user = u
                 /\ d.allowances[i].plan = plan
                 /\ d.allowances[i].type = t}
        e == IF S = {} THEN 0 ELSE CHOOSE i \in S : \A j \in S : i <= j
        remaining == RolloverRemaining(d.allowances[e])
        withBucket ==
            IF remaining > 0 /\ policy # "none"
            THEN [d EXCEPT !.buckets = Append(@,
                     [user |-> u, allowance_id |-> e, remain |-> remaining,
                      expires_at |-> calculate_rollover_expiry(expires_at, policy)])]
            ELSE d
    IN  IF e = 0
        THEN grant_allowance(d, u, plan, t, total, policy, expires_at, source).db
        ELSE [withBucket EXCEPT !.allowances[e].total = total,
                                !.allowances[e].used = 0,
                                !.allowances[e].rollover_policy = policy,
                                !.allowances[e].expires_at = expires_at]

\* int(plan.rc_monthly * usage_bonus_rate)
UsageTotal(plan) == (plan.rc_monthly * plan.bonus_num) \div plan.bonus_den

AllowanceSpecs(plan) ==
    <<[type |-> "BC", total |-> plan.bc_monthly, rollover |-> "1_cycle"],
      [type |-> "RC", total |-> plan.rc_monthly, rollover |-> "1_cycle"]>>
    \o (IF UsageTotal(plan) > 0
        THEN <<[type |-> "Usage", total |-> UsageTotal(plan), rollover |-> "none"]>>
        ELSE <<>>)

RECURSIVE UpsertAll(_, _, _, _, _, _)
UpsertAll(d, u, p, specs, period_end, source) ==
    IF specs = <<>> THEN d
    ELSE LET sp == Head(specs)
         IN  UpsertAll(IF sp.total <= 0 THEN d
                       ELSE upsert_allowance(d, u, p, sp.type, sp.total, sp.rollover,
                                             period_end, source),
                       u, p, Tail(specs), period_end, source)

\* DEFAULT_PLAN_SEEDS in its order; a seed's identifier is written as its name
SeedOrder == <<"Free", "Pro", "Scale", "Enterprise">>

\* the Plan row ensure_default_plans writes for a seed
PlanRow(k) ==
    [id |-> k, name |-> DEFAULT_PLAN_SEEDS[k].name,
     bc_monthly |-> DEFAULT_PLAN_SEEDS[k].bc_monthly,
     rc_monthly |-> DEFAULT_PLAN_SEEDS[k].rc_monthly,
     trial_days |-> DEFAULT_PLAN_SEEDS[k].trial_days,
     payg_enabled |-> DEFAULT_PLAN_SEEDS[k].payg_enabled, is_active |-> TRUE]

\* the plan identifiers db.get(Plan, seed.id) finds
SeenPlans(d) == {d.plans[i].id : i \in DOMAIN d.plans}

\* ensure_default_plans in a session whose db.get found the identifiers "seen":
\* those rows are overwritten with the seed's values, the others are inserted
ensure_default_plans_seen(d, seen) ==
    LET updated == [i \in DOMAIN d.plans |->
                       IF d.plans[i].id \in seen THEN PlanRow(d.plans[i].id)
                       ELSE d.plans[i]]
        missing == SelectSeq(SeedOrder, LAMBDA k : k \notin seen)
    IN  [d EXCEPT !.plans = updated \o [i \in 1..Len(missing) |-> PlanRow(missing[i])]]

ensure_default_plans(d) == ensure_default_plans_seen(d, SeenPlans(d))

\* activate_plan that ends the allowances of the user's other plans
activate_plan_ends_other_plans(d, u, p, source, tnow, found, seen) ==
    LET plan == DEFAULT_PLAN_SEEDS[p]
        period_end == tnow + PeriodDays
        row == [user |-> u, plan |-> p,
                status |-> IF plan.trial_days > 0 THEN "trialing" ELSE "active",
                payg_enabled |-> plan.payg_enabled,
                current_period_end |-> period_end,
                is_primary |-> TRUE]
        withPlans == ensure_default_plans_seen(d, seen)
        withSub == IF found = 0 THEN [withPlans EXCEPT !.subs = Append(@, row)]
                   ELSE [withPlans EXCEPT !.subs[found] = row]
        ended == [withSub EXCEPT !.allowances =
                     [i \in DOMAIN @ |->
                         IF @[i].user = u /\ @[i].plan \notin {p, NoPlan}
                         THEN [@[i] EXCEPT !.expires_at = tnow] ELSE @[i]]]
    IN  UpsertAll(ended, u, p, AllowanceSpecs(plan), period_end, source)

\* activate_plan from the point where db.get has found the plans "seen" and
\* get_primary_subscription has answered "found" (0: none): the plans are
\* seeded, the subscription is written, then the allowances upserted
activate_plan_found(d, u, p, source, tnow, found, seen) ==
    LET plan == DEFAULT_PLAN_SEEDS[p]
        period_end == tnow + PeriodDays
        row == [user |-> u, plan |-> p,
                status |-> IF plan.trial_days > 0 THEN "trialing" ELSE "active",
                payg_enabled |-> plan.payg_enabled,
                current_period_end |-> period_end,
                is_primary |-> TRUE]
        withPlans == ensure_default_plans_seen(d, seen)
        withSub == IF found = 0 THEN [withPlans EXCEPT !.subs = Append(@, row)]
                   ELSE [withPlans EXCEPT !.subs[found] = row]
    IN  UpsertAll(withSub, u, p, AllowanceSpecs(plan), period_end, source)

\* activate_plan followed by the handler's commit (migrate_plan)
activate_plan(d, u, p, source, tnow) ==
    activate_plan_found(d, u, p, source, tnow, get_primary_subscription(d, u),
                        SeenPlans(d))

\* PointsService._calculate_balance: the BC balance
calculate_balance(d, u, tnow) ==
    LET S == {i \in DOMAIN d.allowances :
                 /\ d.allowances[i].user = u
                 /\ d.allowances[i].type = "BC"
                 /\ NotExpired(d.allowances[i], tnow)}
    IN  SumOver([i \in S |-> AllowanceAvailable(d.allowances[i])], S)
        + rollover_available(d, u, "BC", tnow)

record_transaction(d, u, change, tx_type, tnow) ==
    [d EXCEPT !.txs = Append(@,
        [user |-> u, type |-> tx_type, change |-> change,
         balance_after |-> calculate_balance(d, u, tnow)])]

\* recharge that grants the allowance and records no transaction
recharge_without_transaction(d, u, package_id, tnow) ==
    IF package_id \notin DOMAIN RECHARGE_PACKAGES_BY_ID
    THEN [ok |-> FALSE, db |-> d]
    ELSE LET points == RECHARGE_PACKAGES_BY_ID[package_id].points
             g == grant_allowance(d, u, NoPlan, "BC", points, "none", Null,
                                  <<"recharge", Len(d.allowances) + 1>>)
         IN  [ok |-> TRUE, db |-> g.db]

\* PointsService.recharge: a one-off BC allowance and its RECHARGE transaction
recharge(d, u, package_id, tnow) ==
    IF package_id \notin DOMAIN RECHARGE_PACKAGES_BY_ID
    THEN [ok |-> FALSE, db |-> d]
    ELSE LET points == RECHARGE_PACKAGES_BY_ID[package_id].points
             g == grant_allowance(d, u, NoPlan, "BC", points, "none", Null,
                                  <<"recharge", Len(d.allowances) + 1>>)
         IN  [ok |-> TRUE, db |-> record_transaction(g.db, u, points, "recharge", tnow)]

\* a daily grant that gives the day's allowance back in full when it exists
grant_daily_autofix_bc_resets_used(d, u, today) ==
    LET source == <<"autofix_daily_bc", today>>
        S == {i \in DOMAIN d.allowances :
                 /\ d.allowances[i].user = u
                 /\ d.allowances[i].source = source
                 /\ d.allowances[i].type = "BC"}
        e == IF S = {} THEN 0 ELSE CHOOSE i \in S : \A j \in S : i <= j
    IN  IF free_daily_bc <= 0 THEN d
        ELSE IF e # 0
        THEN [d EXCEPT !.allowances[e].total = free_daily_bc,
                       !.allowances[e].used = 0,
                       !.allowances[e].expires_at = today + 1]
        ELSE grant_allowance(d, u, NoPlan, "BC", free_daily_bc, "none", today + 1, source).db

grant_daily_autofix_bc(d, u, today) ==
    LET source == <<"autofix_daily_bc", today>>
        S == {i \in DOMAIN d.allowances :
                 /\ d.allowances[i].user = u
                 /\ d.allowances[i].source = source
                 /\ d.allowances[i].type = "BC"}
        e == IF S = {} THEN 0 ELSE CHOOSE i \in S : \A j \in S : i <= j
    IN  IF free_daily_bc <= 0 THEN d
        ELSE IF e # 0
        THEN [d EXCEPT !.allowances[e].total = free_daily_bc,
                       !.allowances[e].used = Min(d.allowances[e].used, free_daily_bc),
                       !.allowances[e].expires_at = today + 1]
        ELSE grant_allowance(d, u, NoPlan, "BC", free_daily_bc, "none", today + 1, source).db

\* the purge that also removes the events of the purged days
cleanup_autofix_counters_purging_events(d, older_than) ==
    [d EXCEPT !.autofix = SelectSeq(@, LAMBDA r : ~(r.date_key < older_than)),
              !.events = SelectSeq(@, LAMBDA r : ~(r.day < older_than))]

\* revoke_allowance: the allowance expires now
revoke_allowance(d, i, tnow) == [d EXCEPT !.allowances[i].expires_at = tnow]

\* _upsert_summary: the summary of the key (workspace, metric, period) is
\* created with the increment or has it added
upsert_summary(d, u, key, increment) ==
    LET S == {i \in DOMAIN d.summaries : d.summaries[i].key = key}
    IN  IF S = {}
        THEN [d EXCEPT !.summaries = Append(@, [user |-> u, key |-> key,
                                                 value |-> increment])]
        ELSE LET i == CHOOSE i \in S : TRUE
             IN  [d EXCEPT !.summaries[i].value = @ + increment]

\* record_usage: the reading and the summary are added to the session and
\* flushed; the value, in whole units here, is consumed from the Usage allowance
\* when asked to and positive.  The only commit is the one of consume
\* (billing_service.py:382): the route and get_db make none, so a call that
\* consumes nothing returns its reading and summary and leaves the session
\* uncommitted.  consume reads and writes neither table, so its session is the
\* one it makes of d with the flushed reading and summary in it.
record_usage(d, u, key, value, consume_allowance, tnow) ==
    LET withReading == [d EXCEPT !.readings = Append(@, [user |-> u, key |-> key,
                                                          value |-> value])]
        flushed == upsert_summary(withReading, u, key, value)
        amount == Max(value, 0)
        r == consume(d, u, "Usage", amount, NoHash, TRUE, tnow)
    IN  IF consume_allowance /\ amount > 0
        THEN [r EXCEPT !.session.readings = flushed.readings,
                       !.session.summaries = flushed.summaries]
        ELSE [result |-> "ok", total_deducted |-> 0, event |-> 0, charge |-> 0,
              autofix |-> 0, session |-> flushed]

cleanup_autofix_counters(d, older_than) ==
    [d EXCEPT !.autofix = SelectSeq(@, LAMBDA r : ~(r.date_key < older_than))]

RECURSIVE GrantDailyAll(_, _, _)
GrantDailyAll(d, US, today) ==
    IF US = {} THEN d
    ELSE LET u == CHOOSE x \in US : TRUE
             sub == get_primary_subscription(d, u)
         IN  GrantDailyAll(IF sub # 0 /\ d.subs[sub].plan = "Free"
                           THEN grant_daily_autofix_bc(d, u, today) ELSE d,
                           US \ {u}, today)

\* billing_tasks.reset_autofix: the daily grant for Free users, then the purge
reset_autofix(d, today) == cleanup_autofix_counters(GrantDailyAll(d, Users, today), today)

-----------------------------------------------------------------------------
(* The handlers, one request at a time *)

\* units the pools of (u, t) hold, expired or not
PoolUnits(d, u, t) ==
    LET A == {i \in DOMAIN d.allowances :
                 d.allowances[i].user = u /\ d.allowances[i].type = t}
        B == {i \in DOMAIN d.buckets :
                 d.buckets[i].user = u /\ d.allowances[d.buckets[i].allowance_id].type = t}
    IN  SumOver([i \in A |-> d.allowances[i].total - d.allowances[i].used], A)
        + SumOver([i \in B |-> d.buckets[i].remain], B)

\* the calls offered to a client that retries: credit type, amount, action_hash,
\* allow_payg
RetryInputs == {<<"BC", 150, H1, FALSE>>, <<"BC", 150, NoHash, TRUE>>}

\* the calls that carry an action_hash, whose attempts are recorded in hist
RetryKeys == {c \in RetryInputs : c[3] # NoHash}

\* A request's session: where it is in consume, and what it holds unflushed
NoFix == [kind |-> "none", user |-> "none", date_key |-> 0, limit |-> 0, consumed |-> 0]

BlankSession ==
    [pc |-> "idle", user |-> "none", type |-> "none", amount |-> 0, hash |-> NoHash,
     allow_payg |-> FALSE, bwrites |-> {}, awrites |-> {}, remaining |-> 0,
     total_deducted |-> 0, last_allowance |-> 0, fix |-> NoFix, charge |-> 0,
     result |-> "none", applied |-> 0, plan |-> NoPlan, found |-> 0, seen |-> {}]

\* The record of the latest call: its arguments, what it returned or raised,
\* the database before it ("before") and the session's view when it ended.
NoCall ==
    [op |-> "none", user |-> "none", type |-> "none", amount |-> 0, hash |-> NoHash,
     allow_payg |-> FALSE, result |-> "none", total_deducted |-> 0, event |-> 0,
     charge |-> 0, autofix |-> 0, available |-> 0, rollover |-> 0,
     recharged |-> FALSE, before |-> EmptyDb, session |-> EmptyDb, at |-> 0,
     key |-> "none"]

WithinBounds(d) ==
    /\ Len(d.events) <= MaxEvents
    /\ Len(d.allowances) <= MaxAllowances
    /\ Len(d.buckets) <= MaxBuckets

Init ==
    /\ db = EmptyDb
    /\ now = 0
    /\ ticks = 0
    /\ last = NoCall
    /\ sess = [s \in Sessions |-> BlankSession]
    /\ hist = [k \in Users \X RetryKeys |-> [failed |-> FALSE, deducted |-> 0]]

\* consume_points: BillingService.consume in the request's session; a raise
\* leaves the session uncommitted
ConsumeCall(u, t, amount, h, allow_payg) ==
    LET r == consume(db, u, t, amount, h, allow_payg, now)
    IN  /\ db' = AfterConsume(db, r)
        /\ last' = [NoCall EXCEPT !.op = "consume", !.user = u, !.type = t,
                                  !.amount = amount, !.hash = h, !.allow_payg = allow_payg,
                                  !.result = r.result, !.total_deducted = r.total_deducted,
                                  !.event = r.event, !.charge = r.charge,
                                  !.autofix = r.autofix, !.before = db,
                                  !.session = r.session, !.at = now]
        /\ UNCHANGED <<now, ticks, sess>>

Consume(u, t, amount, h, allow_payg) ==
    ConsumeCall(u, t, amount, h, allow_payg) /\ UNCHANGED hist

\* a consume call whose attempts are recorded: whether one of them failed, and
\* the units all of them took from the committed pools
ConsumeAttempt(u, t, amount, h, allow_payg) ==
    LET r == consume(db, u, t, amount, h, allow_payg, now)
        k == <<t, amount, h, allow_payg>>
    IN  /\ ConsumeCall(u, t, amount, h, allow_payg)
        /\ hist' = IF k \in RetryKeys
                   THEN [hist EXCEPT ![u, k] =
                            [failed |-> @.failed \/ r.result \in {"exhausted", "autofix_limit"},
                             deducted |-> @.deducted + PoolUnits(db, u, t)
                                                     - PoolUnits(AfterConsume(db, r), u, t)]]
                   ELSE hist

\* a pre-check that runs the drain loops and commits
WouldConsumeDraining(u, t, amount) ==
    LET r == would_consume(db, u, t, amount, now)
        b == DrainBuckets(db, u, t, amount, now)
        dr == DrainAllowances(b.db, u, t, b.remaining, b.total_deducted, now)
    IN  /\ db' = dr.db
        /\ last' = [NoCall EXCEPT !.op = "would_consume", !.user = u, !.type = t,
                                  !.amount = amount, !.result = r.result,
                                  !.available = r.available, !.rollover = r.rollover,
                                  !.before = db, !.at = now]
        /\ UNCHANGED <<now, ticks, sess, hist>>

WouldConsume(u, t, amount) ==
    LET r == would_consume(db, u, t, amount, now)
    IN  /\ last' = [NoCall EXCEPT !.op = "would_consume", !.user = u, !.type = t,
                                  !.amount = amount, !.result = r.result,
                                  !.available = r.available, !.rollover = r.rollover,
                                  !.before = db, !.at = now]
        /\ UNCHANGED <<db, now, ticks, sess, hist>>

ActivatePlan(u, p) ==
    /\ db' = activate_plan(db, u, p, <<"migration", 0>>, now)
    /\ last' = [NoCall EXCEPT !.op = "activate_plan", !.user = u, !.type = p,
                              !.result = "ok", !.before = db, !.at = now]
    /\ UNCHANGED <<now, ticks, sess, hist>>

Recharge(u, package_id) ==
    LET r == recharge(db, u, package_id, now)
    IN  /\ db' = r.db
        /\ last' = [NoCall EXCEPT !.op = "recharge", !.user = u, !.type = package_id,
                                  !.result = IF r.ok THEN "ok" ELSE "invalid",
                                  !.before = db, !.at = now]
        /\ UNCHANGED <<now, ticks, sess, hist>>

\* grant_daily_autofix_bc for one user, committed by its caller
GrantDailyAutofixBc(u) ==
    /\ db' = grant_daily_autofix_bc(db, u, now)
    /\ last' = [NoCall EXCEPT !.op = "grant_daily_autofix_bc", !.user = u,
                              !.result = "ok", !.before = db, !.at = now]
    /\ UNCHANGED <<now, ticks, sess, hist>>

ResetAutofix ==
    /\ db' = reset_autofix(db, now)
    /\ last' = [NoCall EXCEPT !.op = "reset_autofix", !.result = "ok", !.before = db,
                              !.at = now]
    /\ UNCHANGED <<now, ticks, sess, hist>>

Tick(days) ==
    /\ ticks < MaxTicks
    /\ now' = now + days
    /\ ticks' = ticks + 1
    /\ last' = [NoCall EXCEPT !.op = "tick"]
    /\ UNCHANGED <<db, sess, hist>>

Next ==
    \/ \E u \in Users, c \in ConsumeInputs :
           Consume(u, c[1], c[2], c[3], c[4]) /\ WithinBounds(db')
    \/ \E u \in Users, c \in WouldInputs : WouldConsume(u, c[1], c[2])
    \/ \E u \in Users, p \in PlanChoices : ActivatePlan(u, p) /\ WithinBounds(db')
    \/ \E u \in Users, k \in PackageChoices : Recharge(u, k) /\ WithinBounds(db')
    \/ \E u \in Users : GrantDailyAutofixBc(u) /\ WithinBounds(db')
    \/ \E days \in TickDays : Tick(days)

Spec == Init /\ [][Next]_vars

-----------------------------------------------------------------------------
(* The Free plan: the daily Auto-fix cover and the maintenance job *)

FreeConsumeInputs == {<<"BC", 150, NoHash, TRUE>>, <<"BC", 150, H1, TRUE>>}

NextFree ==
    \/ \E u \in Users : ActivatePlan(u, "Free")
    \/ \E u \in Users, c \in FreeConsumeInputs :
           Consume(u, c[1], c[2], c[3], c[4]) /\ Len(db'.events) <= MaxFreeEvents
    \/ ResetAutofix
    \/ Tick(1)

SpecFree == Init /\ [][NextFree]_vars

\* A client that retries a failed call with the same action_hash, on no plan,
\* the Free plan or the Pro plan, while credit is granted and days pass
WithinRetryBounds(d) ==
    /\ Len(d.events) <= MaxRetryEvents
    /\ Len(d.allowances) <= MaxRetryAllowances
    /\ Len(d.buckets) <= MaxBuckets

NextRetry ==
    \/ \E u \in Users, c \in RetryInputs :
           ConsumeAttempt(u, c[1], c[2], c[3], c[4]) /\ WithinRetryBounds(db')
    \/ \E u \in Users, p \in {"Free", "Pro"} :
           ActivatePlan(u, p) /\ WithinRetryBounds(db')
    \/ \E u \in Users : Recharge(u, "starter") /\ WithinRetryBounds(db')
    \/ \E u \in Users : GrantDailyAutofixBc(u) /\ WithinRetryBounds(db')
    \/ Tick(1)

SpecRetry == Init /\ [][NextRetry]_vars

\* Plan transitions between the seeded plans, with consumption of each credit type
\* and the passing of a period between them
TransitionInputs ==
    {<<"BC", 150, NoHash, FALSE>>, <<"RC", 2500, NoHash, FALSE>>,
     <<"Usage", 40, NoHash, FALSE>>}

TransitionPlans == {"Free", "Pro", "Scale"}

WithinTransitionBounds(d) ==
    /\ Len(d.events) <= MaxTransitionEvents
    /\ Len(d.allowances) <= MaxTransitionAllowances
    /\ Len(d.buckets) <= MaxTransitionBuckets

NextTransitions ==
    \/ \E u \in Users, c \in TransitionInputs :
           Consume(u, c[1], c[2], c[3], c[4]) /\ WithinTransitionBounds(db')
    \/ \E u \in Users, p \in TransitionPlans :
           ActivatePlan(u, p) /\ WithinTransitionBounds(db')
    \/ \E days \in TickDays : Tick(days)

SpecTransitions == Init /\ [][NextTransitions]_vars

\* The order of the drain: several buckets and allowances of one credit type,
\* with and without an expiry, created in any order
OrderInputs == {<<"BC", 150, NoHash, FALSE>>, <<"BC", 450, NoHash, TRUE>>}

OrderPlans == {"Free", "Pro"}

WithinOrderBounds(d) ==
    /\ Len(d.events) <= MaxOrderEvents
    /\ Len(d.allowances) <= MaxOrderAllowances
    /\ Len(d.buckets) <= MaxOrderBuckets

NextOrder ==
    \/ \E u \in Users, c \in OrderInputs :
           Consume(u, c[1], c[2], c[3], c[4]) /\ WithinOrderBounds(db')
    \/ \E u \in Users, p \in OrderPlans : ActivatePlan(u, p) /\ WithinOrderBounds(db')
    \/ \E u \in Users : Recharge(u, "starter") /\ WithinOrderBounds(db')
    \/ \E days \in TickDays : Tick(days)

SpecOrder == Init /\ [][NextOrder]_vars

\* The fallback of consume for every subscription the schema allows.  No code
\* here writes payg_enabled = false, is_primary = false or the statuses
\* past_due and canceled, so such rows are given at the start.
SubscriptionChoices ==
    [user : Users, plan : {"Free", "Pro"},
     status : {"trialing", "active", "past_due", "canceled"},
     payg_enabled : BOOLEAN, current_period_end : {PeriodDays}, is_primary : BOOLEAN]

PaygInputs == {<<"BC", 150, NoHash, TRUE>>, <<"BC", 150, NoHash, FALSE>>}

InitPayg ==
    /\ \/ db = EmptyDb
       \/ \E row \in SubscriptionChoices :
              db = [ensure_default_plans(EmptyDb) EXCEPT !.subs = <<row>>]
    /\ now = 0
    /\ ticks = 0
    /\ last = NoCall
    /\ sess = [s \in Sessions |-> BlankSession]
    /\ hist = [k \in Users \X RetryKeys |-> [failed |-> FALSE, deducted |-> 0]]

WithinPaygBounds(d) ==
    /\ Len(d.events) <= MaxPaygEvents
    /\ Len(d.allowances) <= MaxPaygAllowances

NextPayg ==
    \/ \E u \in Users, c \in PaygInputs :
           Consume(u, c[1], c[2], c[3], c[4]) /\ WithinPaygBounds(db')
    \/ \E u \in Users : Recharge(u, "starter") /\ WithinPaygBounds(db')
    \/ Tick(1)

SpecPayg == InitPayg /\ [][NextPayg]_vars

-----------------------------------------------------------------------------
(* Concurrent requests.  Each request handler has its own session.  A session  *)
(* reads committed rows when consume queries them (the lookup, the buckets,    *)
(* the allowances, the subscription and counter), keeps what it changed, and   *)
(* at commit writes the changed columns with the values it computed and        *)
(* inserts its new rows; a unique violation rolls all of it back.  consume     *)
(* takes no row lock (no with_for_update) and sets no isolation level.         *)

ConcInputs == {<<"BC", 150, H1, TRUE>>, <<"BC", 150, NoHash, TRUE>>}

GenTag(s) == IF s = "s1" THEN "gen1" ELSE "gen2"

\* the rows of a table whose column differs between what was read and the
\* session's value: the UPDATEs of the flush
ChangedRemain(old, new) ==
    {<<i, new[i].remain>> : i \in {j \in DOMAIN old : new[j].remain # old[j].remain}}

ChangedUsed(old, new) ==
    {<<i, new[i].used>> : i \in {j \in DOMAIN old : new[j].used # old[j].used}}

RECURSIVE WriteRemain(_, _)
WriteRemain(buckets, W) ==
    IF W = {} THEN buckets
    ELSE LET w == CHOOSE x \in W : TRUE
         IN  WriteRemain([buckets EXCEPT ![w[1]].remain = w[2]], W \ {w})

RECURSIVE WriteUsed(_, _)
WriteUsed(allowances, W) ==
    IF W = {} THEN allowances
    ELSE LET w == CHOOSE x \in W : TRUE
         IN  WriteUsed([allowances EXCEPT ![w[1]].used = w[2]], W \ {w})

\* the counter write of the flush: INSERT of a new row, or UPDATE of consumed
WriteFix(d, fix) ==
    LET i == AutofixRow(d, fix.user, fix.date_key)
        row == [user |-> fix.user, date_key |-> fix.date_key, limit |-> fix.limit,
                consumed |-> fix.consumed]
    IN  IF fix.kind = "insert" THEN [d EXCEPT !.autofix = Append(@, row)]
        ELSE IF fix.kind = "update" /\ i # 0
        THEN [d EXCEPT !.autofix[i].consumed = fix.consumed]
        ELSE d

\* consume up to the action_hash lookup
CBegin(s, u, t, amount, h, allow_payg) ==
    LET existing == ExistingEvent(db, h)
        call == [BlankSession EXCEPT !.user = u, !.type = t, !.amount = amount,
                                     !.hash = h, !.allow_payg = allow_payg]
    IN  /\ sess[s].pc \in {"idle", "done"}
        /\ sess' = [sess EXCEPT ![s] =
               IF amount <= 0 THEN [call EXCEPT !.pc = "done", !.result = "invalid"]
               ELSE IF existing # 0
               THEN [call EXCEPT !.pc = "done", !.result = "replay",
                                 !.total_deducted = db.events[existing].amount]
               ELSE [call EXCEPT !.pc = "buckets"]]
        /\ UNCHANGED <<db, now, ticks, last, hist>>

\* Step 1: the rollover buckets as committed now
CDrainBuckets(s) ==
    LET c == sess[s]
        b == DrainBuckets(db, c.user, c.type, c.amount, now)
    IN  /\ c.pc = "buckets"
        /\ sess' = [sess EXCEPT ![s] =
               [c EXCEPT !.pc = "allowances",
                         !.bwrites = ChangedRemain(db.buckets, b.db.buckets),
                         !.remaining = b.remaining,
                         !.total_deducted = b.total_deducted]]
        /\ UNCHANGED <<db, now, ticks, last, hist>>

\* Step 2: the allowances as committed now
CDrainAllowances(s) ==
    LET c == sess[s]
        dr == DrainAllowances(db, c.user, c.type, c.remaining, c.total_deducted, now)
    IN  /\ c.pc = "allowances"
        /\ sess' = [sess EXCEPT ![s] =
               [c EXCEPT !.pc = "fallback",
                         !.awrites = ChangedUsed(db.allowances, dr.db.allowances),
                         !.remaining = dr.remaining,
                         !.total_deducted = dr.total_deducted,
                         !.last_allowance = dr.last_allowance]]
        /\ UNCHANGED <<db, now, ticks, last, hist>>

\* The fallback for an unmet remainder, on the subscription and counter as
\* committed now; a raise ends the request and its session is rolled back
CFallback(s) ==
    LET c == sess[s]
        dr == [db |-> db, remaining |-> c.remaining, total_deducted |-> c.total_deducted,
               last_allowance |-> c.last_allowance]
        r == ConsumeFallback(db, c.user, c.type, c.amount, c.hash, c.allow_payg, dr, now)
        row == IF r.autofix = 0 THEN NoFix
               ELSE [kind |-> IF r.autofix > Len(db.autofix) THEN "insert" ELSE "update"]
                    @@ r.session.autofix[r.autofix]
    IN  /\ c.pc = "fallback"
        /\ sess' = [sess EXCEPT ![s] =
               IF r.result = "ok"
               THEN [c EXCEPT !.pc = "commit", !.fix = row,
                              !.charge = IF r.charge = 0 THEN 0 ELSE c.remaining]
               ELSE [c EXCEPT !.pc = "done", !.result = r.result]]
        /\ UNCHANGED <<db, now, ticks, last, hist>>

\* the session's flush applied to the rows as committed now
Flush(d, s, c, tnow) ==
    LET pools == [d EXCEPT !.buckets = WriteRemain(@, c.bwrites),
                           !.allowances = WriteUsed(@, c.awrites)]
        fixed == WriteFix(pools, c.fix)
        charged == IF c.charge = 0 THEN fixed
                   ELSE create_payg_charge(fixed, c.user, c.type, c.charge)
    IN  [charged EXCEPT !.events = Append(@,
            [user |-> c.user, allowance_id |-> c.last_allowance,
             allowance_type |-> c.type, amount |-> c.amount,
             action_hash |-> IF c.hash = NoHash THEN <<GenTag(s), Len(d.events) + 1>>
                             ELSE c.hash,
             autofix_applied |-> c.fix.kind # "none",
             payg_charge_id |-> IF c.charge = 0 THEN 0 ELSE Len(charged.charges),
             day |-> tnow])]

\* db.commit() of consume: all of the flush, or none of it on a unique violation
CCommit(s) ==
    LET c == sess[s]
        d2 == Flush(db, s, c, now)
        ok == UniqueOk(d2)
    IN  /\ c.pc = "commit"
        /\ db' = IF ok THEN d2 ELSE db
        /\ sess' = [sess EXCEPT ![s] =
               [c EXCEPT !.pc = "done",
                         !.result = IF ok THEN "ok" ELSE "integrity_error",
                         !.applied = IF ok THEN PoolUnits(db, c.user, c.type)
                                                  - PoolUnits(d2, c.user, c.type)
                                     ELSE 0]]
        /\ UNCHANGED <<now, ticks, last, hist>>

WithinConcBounds(d) == WithinBounds(d) /\ Len(d.allowances) <= MaxConcAllowances

NextConc ==
    \/ \E s \in Sessions, u \in Users, c \in ConcInputs :
           CBegin(s, u, c[1], c[2], c[3], c[4])
    \/ \E s \in Sessions : CDrainBuckets(s)
    \/ \E s \in Sessions : CDrainAllowances(s)
    \/ \E s \in Sessions : CFallback(s)
    \/ \E s \in Sessions : CCommit(s) /\ WithinConcBounds(db')
    \/ \E u \in Users, p \in PlanChoices : ActivatePlan(u, p) /\ WithinConcBounds(db')
    \/ \E u \in Users : Recharge(u, "starter") /\ WithinConcBounds(db')
    \/ \E u \in Users : GrantDailyAutofixBc(u) /\ WithinConcBounds(db')

\* BillingService.grant_allowance called directly, committed by its caller only
\* when it returned
GrantAllowance(u, t, total) ==
    LET r == grant_allowance(db, u, NoPlan, t, total, "none", Null,
                             <<"grant", Len(db.allowances) + 1>>)
    IN  /\ db' = IF r.ok THEN r.db ELSE db
        /\ last' = [NoCall EXCEPT !.op = "grant_allowance", !.user = u, !.type = t,
                                  !.amount = total,
                                  !.result = IF r.ok THEN "ok" ELSE "invalid",
                                  !.before = db, !.session = r.db, !.at = now]
        /\ UNCHANGED <<now, ticks, sess, hist>>

\* Callers that pass any quantity: positive, zero and negative
Quantities == {0 - 5, 0, 150}

NextAmounts ==
    \/ \E u \in Users, t \in {"BC", "Usage"}, q \in Quantities, h \in {NoHash, H1} :
           Consume(u, t, q, h, TRUE) /\ WithinBounds(db')
    \/ \E u \in Users, t \in {"BC", "Usage"}, q \in Quantities : WouldConsume(u, t, q)
    \/ \E u \in Users, t \in {"BC", "Usage"}, q \in Quantities :
           GrantAllowance(u, t, q) /\ WithinBounds(db')
    \/ \E u \in Users : ActivatePlan(u, "Pro") /\ WithinBounds(db')

SpecAmounts == Init /\ [][NextAmounts]_vars

SpecConc == Init /\ [][NextConc]_vars

\* Concurrent plan activations (migrate_plan), one session each: the primary
\* subscription is read first, the writes reach the database at the handler's
\* commit, which a unique violation turns into a rollback.
ActPlanChoices == {"Pro", "Scale"}

\* the users whose plan is migrated: payload.user_id
ActUsers == {"u1", "u2"}

\* migrate_plan up to get_primary_subscription
ABegin(s, u, p) ==
    /\ sess[s].pc \in {"idle", "done"}
    /\ sess' = [sess EXCEPT ![s] =
           [BlankSession EXCEPT !.pc = "activate", !.user = u, !.plan = p,
                                !.found = get_primary_subscription(db, u),
                                !.seen = SeenPlans(db)]]
    /\ UNCHANGED <<db, now, ticks, last, hist>>

\* the rest of activate_plan and the handler's db.commit()
ACommit(s) ==
    LET c == sess[s]
        d2 == activate_plan_found(db, c.user, c.plan, <<"migration", 0>>, now, c.found,
                                  c.seen)
        ok == UniqueOk(d2)
    IN  /\ c.pc = "activate"
        /\ db' = IF ok THEN d2 ELSE db
        /\ sess' = [sess EXCEPT ![s] =
               [c EXCEPT !.pc = "done", !.result = IF ok THEN "ok" ELSE "integrity_error"]]
        /\ UNCHANGED <<now, ticks, last, hist>>

WithinActBounds(d) ==
    /\ Len(d.allowances) <= MaxActAllowances
    /\ Len(d.buckets) <= MaxActBuckets

NextAct ==
    \/ \E s \in Sessions, u \in ActUsers, p \in ActPlanChoices : ABegin(s, u, p)
    \/ \E s \in Sessions : ACommit(s) /\ WithinActBounds(db')
    \/ Tick(1)

SpecAct == Init /\ [][NextAct]_vars

-----------------------------------------------------------------------------
(* Payments.  A Payment row is created when a checkout starts; the provider's *)
(* success and failure notifications reach the three provider services, whose *)
(* success handlers share one logic.  "confirmed" records what the provider   *)
(* reported for the payment and "credited" counts the runs of recharge made   *)
(* for it; no code reads either.                                              *)

Providers == {"stripe", "paypal", "creem"}

PaymentIds == 1..MaxPayments

\* PayPal's answer to the capture request, as capture_order reads it
CaptureStatuses == {"COMPLETED", "APPROVED", "PAYER_ACTION_REQUIRED"}

\* PaymentService.create_payment: status CREATED, no point transaction yet
create_payment(d, u, provider, provider_payment_id, package_id) ==
    [d EXCEPT !.payments = Append(@,
        [user |-> u, provider |-> provider,
         provider_payment_id |-> provider_payment_id, package_id |-> package_id,
         points |-> RECHARGE_PACKAGES_BY_ID[package_id].points,
         status |-> "created", point_transaction_id |-> 0, confirmed |-> FALSE,
         credited |-> 0])]

\* PaymentService.get_by_provider_payment_id: the row's index, 0 when absent
get_by_provider_payment_id(d, provider, provider_payment_id) ==
    LET S == {i \in DOMAIN d.payments :
                 /\ d.payments[i].provider = provider
                 /\ d.payments[i].provider_payment_id = provider_payment_id}
    IN  IF S = {} THEN 0 ELSE CHOOSE i \in S : TRUE

\* PaymentService.mark_status: the status always, the transaction id only
\* when one is passed
mark_status(d, p, status, point_transaction_id) ==
    [d EXCEPT !.payments[p].status = status,
              !.payments[p].point_transaction_id =
                  IF point_transaction_id # 0 THEN point_transaction_id ELSE @]

mark_failed(d, p) == mark_status(d, p, "failed", 0)

\* The same handler with the stored transaction id ignored
mark_payment_succeeded_recredits(d, p, tnow) ==
    IF p = 0
    THEN [processed |-> FALSE, reason |-> "payment_not_found", db |-> d,
          transaction_id |-> 0, recharged |-> FALSE]
    ELSE IF d.payments[p].status = "succeeded"
    THEN [processed |-> FALSE, reason |-> "already_processed", db |-> d,
          transaction_id |-> 0, recharged |-> FALSE]
    ELSE LET r == recharge(d, d.payments[p].user, d.payments[p].package_id, tnow)
         IN  [processed |-> TRUE, reason |-> "none",
              db |-> mark_status(r.db, p, "succeeded", Len(r.db.txs)),
              transaction_id |-> Len(r.db.txs), recharged |-> TRUE]

\* handle_payment_intent_succeeded, mark_payment_succeeded and _mark_success
mark_payment_succeeded(d, p, tnow) ==
    IF p = 0
    THEN [processed |-> FALSE, reason |-> "payment_not_found", db |-> d,
          transaction_id |-> 0, recharged |-> FALSE]
    ELSE IF d.payments[p].status = "succeeded"
    THEN [processed |-> FALSE, reason |-> "already_processed", db |-> d,
          transaction_id |-> 0, recharged |-> FALSE]
    ELSE LET stored == d.payments[p].point_transaction_id
             r == recharge(d, d.payments[p].user, d.payments[p].package_id, tnow)
             d1 == IF stored = 0 THEN r.db ELSE d
             transaction_id == IF stored = 0 THEN Len(r.db.txs) ELSE stored
         IN  [processed |-> TRUE, reason |-> "none",
              db |-> mark_status(d1, p, "succeeded", transaction_id),
              transaction_id |-> transaction_id, recharged |-> stored = 0]

\* A checkout starts: create_recharge_intent, create_recharge_order,
\* create_checkout.  The provider's payment id is new.
CreatePayment(u, provider, package_id) ==
    /\ Len(db.payments) < MaxPayments
    /\ package_id \in DOMAIN RECHARGE_PACKAGES_BY_ID
    /\ db' = create_payment(db, u, provider, Len(db.payments) + 1, package_id)
    /\ last' = [NoCall EXCEPT !.op = "create_payment", !.user = u,
                              !.type = provider, !.amount = Len(db.payments) + 1,
                              !.result = "ok", !.before = db, !.at = now]
    /\ UNCHANGED <<now, ticks, sess, hist>>

\* A success notification: the Stripe and Creem webhooks and PayPal's
\* PAYMENT.CAPTURE.COMPLETED webhook
SuccessNotification(provider, provider_payment_id) ==
    LET p == get_by_provider_payment_id(db, provider, provider_payment_id)
        r == mark_payment_succeeded(db, p, now)
    IN  /\ db' = IF p = 0 THEN r.db
                 ELSE [r.db EXCEPT !.payments[p].confirmed = TRUE,
                                   !.payments[p].credited =
                                       IF r.recharged THEN @ + 1 ELSE @]
        /\ last' = [NoCall EXCEPT !.op = "payment_success", !.type = provider,
                                  !.amount = p,
                                  !.result = IF r.processed THEN "processed" ELSE r.reason,
                                  !.event = r.transaction_id,
                                  !.recharged = r.recharged,
                                  !.before = db, !.at = now]
        /\ UNCHANGED <<now, ticks, sess, hist>>

\* POST /payments/paypal/capture by the payment's owner: capture_order takes
\* COMPLETED and APPROVED for a capture, anything else answers 400
CapturePaypalOrder(u, provider_payment_id, status) ==
    LET p == get_by_provider_payment_id(db, "paypal", provider_payment_id)
        captured == status \in {"COMPLETED", "APPROVED"}
        r == mark_payment_succeeded(db, p, now)
    IN  /\ p # 0
        /\ db.payments[p].user = u
        /\ db' = IF ~captured THEN db
                 ELSE [r.db EXCEPT !.payments[p].confirmed = @ \/ status = "COMPLETED",
                                   !.payments[p].credited =
                                       IF r.recharged THEN @ + 1 ELSE @]
        /\ last' = [NoCall EXCEPT !.op = "paypal_capture", !.user = u, !.type = status,
                                  !.amount = p,
                                  !.result = IF ~captured THEN "not_completed"
                                             ELSE IF r.processed THEN "processed"
                                             ELSE r.reason,
                                  !.event = IF captured THEN r.transaction_id ELSE 0,
                                  !.recharged = captured /\ r.recharged,
                                  !.before = db, !.at = now]
        /\ UNCHANGED <<now, ticks, sess, hist>>

\* A failure notification: handle_payment_intent_failed, Creem's failed events
FailureNotification(provider, provider_payment_id) ==
    LET p == get_by_provider_payment_id(db, provider, provider_payment_id)
    IN  /\ provider \in {"stripe", "creem"}
        /\ db' = IF p = 0 THEN db ELSE mark_failed(db, p)
        /\ last' = [NoCall EXCEPT !.op = "payment_failed", !.type = provider,
                                  !.amount = p,
                                  !.result = IF p = 0 THEN "payment_not_found"
                                             ELSE "processed",
                                  !.before = db, !.at = now]
        /\ UNCHANGED <<now, ticks, sess, hist>>

WithinPayBounds(d) == Len(d.allowances) <= MaxPayAllowances

NextPay ==
    \/ \E u \in Users, provider \in Providers : CreatePayment(u, provider, "starter")
    \/ \E provider \in Providers, i \in PaymentIds :
           SuccessNotification(provider, i) /\ WithinPayBounds(db')
    \/ \E u \in Users, i \in PaymentIds, status \in CaptureStatuses :
           CapturePaypalOrder(u, i, status) /\ WithinPayBounds(db')
    \/ \E provider \in Providers, i \in PaymentIds : FailureNotification(provider, i)
    \/ \E u \in Users, package_id \in PackageChoices :
           Recharge(u, package_id) /\ WithinPayBounds(db')
    \/ Tick(1)

SpecPay == Init /\ [][NextPay]_vars

\* Every ledger operation, one request at a time
RevokeAllowance(i) ==
    /\ i \in DOMAIN db.allowances
    /\ db' = revoke_allowance(db, i, now)
    /\ last' = [NoCall EXCEPT !.op = "revoke_allowance", !.user = db.allowances[i].user,
                              !.amount = i, !.result = "ok", !.before = db, !.at = now]
    /\ UNCHANGED <<now, ticks, sess, hist>>

\* POST /api/billing/usage
RecordUsage(u, key, value, consume_allowance) ==
    LET r == record_usage(db, u, key, value, consume_allowance, now)
        committed == consume_allowance /\ value > 0 /\ r.result = "ok"
    IN  /\ db' = IF committed THEN r.session ELSE db
        /\ last' = [NoCall EXCEPT !.op = "record_usage", !.user = u, !.type = "Usage",
                                  !.key = key,
                                  !.amount = value, !.allow_payg = consume_allowance,
                                  !.result = r.result, !.total_deducted = r.total_deducted,
                                  !.event = r.event, !.charge = r.charge,
                                  !.before = db, !.session = r.session, !.at = now]
        /\ UNCHANGED <<now, ticks, sess, hist>>

LedgerInputs == {<<"BC", 450, NoHash, TRUE>>}

LedgerPlans == {"Free", "Pro"}

\* value and consume_allowance of a usage report
UsageInputs == {<<40, TRUE>>, <<40, FALSE>>, <<0, TRUE>>}

WithinLedgerBounds(d) ==
    /\ Len(d.events) <= MaxLedgerEvents
    /\ Len(d.allowances) <= MaxLedgerAllowances
    /\ Len(d.buckets) <= MaxLedgerBuckets

NextLedger ==
    \/ \E u \in Users, c \in LedgerInputs :
           Consume(u, c[1], c[2], c[3], c[4]) /\ WithinLedgerBounds(db')
    \/ \E u \in Users : WouldConsume(u, "BC", 150)
    \/ \E u \in Users : GrantAllowance(u, "BC", 150) /\ WithinLedgerBounds(db')
    \/ \E i \in 1..MaxLedgerRevoked : RevokeAllowance(i)
    \/ \E u \in Users, p \in LedgerPlans : ActivatePlan(u, p) /\ WithinLedgerBounds(db')
    \/ \E u \in Users : GrantDailyAutofixBc(u) /\ WithinLedgerBounds(db')
    \/ ResetAutofix /\ WithinLedgerBounds(db')
    \/ \E u \in Users, c \in UsageInputs :
           RecordUsage(u, "k1", c[1], c[2]) /\ WithinLedgerBounds(db')
    \/ Tick(1)

SpecLedger == Init /\ [][NextLedger]_vars

\* The balance query over live and expired credit: a plan activated and renewed,
\* credit spent and revoked, and days passing up to the end of a bucket's life
BalanceTickDays == {1, 60}

WithinBalanceBounds(d) ==
    /\ Len(d.events) <= MaxBalanceEvents
    /\ Len(d.allowances) <= MaxBalanceAllowances
    /\ Len(d.buckets) <= MaxBalanceBuckets

NextBalance ==
    \/ \E u \in Users : Consume(u, "BC", 150, NoHash, FALSE) /\ WithinBalanceBounds(db')
    \/ \E u \in Users, t \in {"BC", "RC"} : WouldConsume(u, t, 150)
    \/ \E u \in Users : ActivatePlan(u, "Pro") /\ WithinBalanceBounds(db')
    \/ \E i \in 1..MaxBalanceAllowances : RevokeAllowance(i)
    \/ \E days \in BalanceTickDays : Tick(days)

SpecBalance == Init /\ [][NextBalance]_vars

\* Usage reports on two keys, by users with and without a plan
UsageKeys == {"k1", "k2"}

WithinUsageBounds(d) ==
    /\ Len(d.events) <= MaxUsageEvents
    /\ Len(d.allowances) <= MaxUsageAllowances
    /\ Len(d.buckets) <= MaxUsageBuckets

NextUsage ==
    \/ \E u \in Users, key \in UsageKeys, c \in UsageInputs :
           RecordUsage(u, key, c[1], c[2]) /\ WithinUsageBounds(db')
    \/ \E u \in Users : ActivatePlan(u, "Pro") /\ WithinUsageBounds(db')

SpecUsage == Init /\ [][NextUsage]_vars

\* The maintenance job (billing_tasks.reset_autofix) beside live consumption.
\* The job has a session of its own, s2: the grant loop reads the subscriptions
\* and the day's allowances as committed then and flushes its changes, the purge
\* and the commit come later, and requests of session s1 run in between.  The
\* job's today is date.today(), the date of the host's time zone, while consume
\* keys the counters by the UTC date: the two are the same day or, east of UTC
\* after local midnight, the job's is a day ahead.  A day passes between
\* requests, not within one.
JobDateOffsets == {0, 1}

RECURSIVE GrantDailyRows(_, _, _)
GrantDailyRows(d, US, today) ==
    IF US = {} THEN d
    ELSE LET u == CHOOSE x \in US : TRUE
         IN  GrantDailyRows(grant_allowance(d, u, NoPlan, "BC", free_daily_bc, "none",
                                            today + 1, <<"autofix_daily_bc", today>>).db,
                            US \ {u}, today)

\* reset_autofix up to the end of the grant loop
JBegin(offset) ==
    LET today == now + offset
        g == GrantDailyAll(db, Users, today)
        c == [BlankSession EXCEPT
                 !.pc = "job", !.amount = today,
                 !.awrites = ChangedUsed(db.allowances, g.allowances),
                 !.seen = {g.allowances[i].user :
                              i \in (DOMAIN g.allowances) \ (DOMAIN db.allowances)}]
    IN  /\ sess["s2"].pc \in {"idle", "done"}
        /\ sess' = [sess EXCEPT !["s2"] = c]
        /\ UNCHANGED <<db, now, ticks, last, hist>>

\* cleanup_autofix_counters(today) on the rows as committed now, and the commit
JCommit ==
    LET c == sess["s2"]
        granted == GrantDailyRows([db EXCEPT !.allowances = WriteUsed(@, c.awrites)],
                                  c.seen, c.amount)
    IN  /\ c.pc = "job"
        /\ db' = cleanup_autofix_counters(granted, c.amount)
        /\ sess' = [sess EXCEPT !["s2"] = [c EXCEPT !.pc = "done", !.result = "ok"]]
        /\ last' = [NoCall EXCEPT !.op = "reset_autofix", !.amount = c.amount,
                                  !.result = "ok", !.before = db, !.at = now]
        /\ UNCHANGED <<now, ticks, hist>>

WithinJobBounds(d) ==
    /\ Len(d.events) <= MaxJobEvents
    /\ Len(d.allowances) <= MaxJobAllowances

NextJob ==
    \/ \E u \in Users : CBegin("s1", u, "BC", 150, NoHash, TRUE)
    \/ CDrainBuckets("s1")
    \/ CDrainAllowances("s1")
    \/ CFallback("s1")
    \/ CCommit("s1") /\ WithinJobBounds(db')
    \/ \E u \in Users : ActivatePlan(u, "Free")
    \/ \E offset \in JobDateOffsets : JBegin(offset)
    \/ JCommit /\ WithinJobBounds(db')
    \/ sess["s1"].pc \in {"idle", "done"} /\ Tick(1)

SpecJob == Init /\ [][NextJob]_vars

\* Concurrent consume requests of a Free-plan user on one day
NextCap ==
    \/ \E s \in Sessions, u \in Users : CBegin(s, u, "BC", 150, NoHash, TRUE)
    \/ \E s \in Sessions : CDrainBuckets(s)
    \/ \E s \in Sessions : CDrainAllowances(s)
    \/ \E s \in Sessions : CFallback(s)
    \/ \E s \in Sessions : CCommit(s) /\ Len(db'.events) <= MaxCapEvents
    \/ \E u \in Users : ActivatePlan(u, "Free")

SpecCap == Init /\ [][NextCap]_vars

\* Concurrent success handlers, one session each.  The handler reads the
\* payment, recharge commits the allowance and the transaction, and mark_status
\* commits the payment; none of them locks the payment row.

\* mark_payment_succeeded up to the tests of the payment it read
HBegin(s, provider, provider_payment_id) ==
    LET p == get_by_provider_payment_id(db, provider, provider_payment_id)
        call == [BlankSession EXCEPT !.type = provider, !.found = p]
    IN  /\ sess[s].pc \in {"idle", "done"}
        /\ sess' = [sess EXCEPT ![s] =
               IF p = 0 THEN [call EXCEPT !.pc = "done", !.result = "payment_not_found"]
               ELSE IF db.payments[p].status = "succeeded"
               THEN [call EXCEPT !.pc = "done", !.result = "already_processed"]
               ELSE IF db.payments[p].point_transaction_id # 0
               THEN [call EXCEPT !.pc = "mark", !.user = db.payments[p].user,
                                 !.amount = db.payments[p].point_transaction_id]
               ELSE [call EXCEPT !.pc = "recharge", !.user = db.payments[p].user,
                                 !.plan = db.payments[p].package_id]]
        /\ UNCHANGED <<db, now, ticks, last, hist>>

\* points_service.recharge for the payment read, committed
HRecharge(s) ==
    LET c == sess[s]
        r == recharge(db, c.user, c.plan, now)
    IN  /\ c.pc = "recharge"
        /\ db' = [r.db EXCEPT !.payments[c.found].credited = @ + 1]
        /\ sess' = [sess EXCEPT ![s] = [c EXCEPT !.pc = "mark", !.amount = Len(r.db.txs)]]
        /\ UNCHANGED <<now, ticks, last, hist>>

\* payment_service.mark_status(SUCCEEDED, point_transaction_id), committed
HMark(s) ==
    LET c == sess[s]
    IN  /\ c.pc = "mark"
        /\ db' = [mark_status(db, c.found, "succeeded", c.amount)
                     EXCEPT !.payments[c.found].confirmed = TRUE]
        /\ sess' = [sess EXCEPT ![s] = [c EXCEPT !.pc = "done", !.result = "processed"]]
        /\ UNCHANGED <<now, ticks, last, hist>>

NextPayConc ==
    \/ \E u \in Users, provider \in Providers : CreatePayment(u, provider, "starter")
    \/ \E s \in Sessions, provider \in Providers, i \in PaymentIds : HBegin(s, provider, i)
    \/ \E s \in Sessions : HRecharge(s) /\ Len(db'.allowances) <= MaxPayConcAllowances
    \/ \E s \in Sessions : HMark(s)

SpecPayConc == Init /\ [][NextPayConc]_vars

\* Two users whose clients send the same action_hash
HashUsers == {"u1", "u2"}
SharedInputs == {<<"BC", 150, H1>>, <<"Usage", 40, H1>>, <<"BC", 150, NoHash>>}

WithinSharedBounds(d) ==
    /\ Len(d.events) <= MaxSharedEvents
    /\ Len(d.allowances) <= MaxSharedAllowances
    /\ Len(d.buckets) <= MaxSharedBuckets

NextShared ==
    \/ \E u \in HashUsers, c \in SharedInputs :
           Consume(u, c[1], c[2], c[3], TRUE) /\ WithinSharedBounds(db')
    \/ \E u \in HashUsers : ActivatePlan(u, "Pro") /\ WithinSharedBounds(db')

SpecShared == Init /\ [][NextShared]_vars

-----------------------------------------------------------------------------
(* Properties of the ledger *)

\* credit the owned pools can cover: unexpired allowances' total - used plus
\* unexpired rollover remain
OwnedCredit(d, u, t, tnow) ==
    LET A == {i \in DOMAIN d.allowances :
                 d.allowances[i].user = u /\ d.allowances[i].type = t
                 /\ NotExpired(d.allowances[i], tnow)}
        B == {i \in DOMAIN d.buckets :
                 d.buckets[i].user = u /\ d.allowances[d.buckets[i].allowance_id].type = t
                 /\ NotExpired(d.buckets[i], tnow)}
    IN  SumOver([i \in A |-> Max(d.allowances[i].total - d.allowances[i].used, 0)], A)
        + SumOver([i \in B |-> d.buckets[i].remain], B)

LiveBuckets(d, u, t, tnow) ==
    {i \in DOMAIN d.buckets :
        d.buckets[i].user = u /\ d.allowances[d.buckets[i].allowance_id].type = t
        /\ NotExpired(d.buckets[i], tnow)}

EventsWithHash(d, h) == {i \in DOMAIN d.events : d.events[i].action_hash = h}

\* the latest call was consume with a positive amount that was not answered
\* from an earlier event
FreshConsume ==
    /\ last.op = "consume"
    /\ last.amount > 0
    /\ (last.hash = NoHash \/ EventsWithHash(last.before, last.hash) = {})

\* C1: consume repeated with one non-empty action_hash: there is exactly one
\* ConsumptionEvent with that hash, and a call that finds the hash already
\* recorded is answered from that event and changes no allowance, bucket,
\* Auto-fix counter, charge or event.
C1_ConsumeIdempotent ==
    /\ \A i, j \in DOMAIN db.events :
           db.events[i].action_hash = db.events[j].action_hash => i = j
    /\ (last.op = "consume" /\ last.hash # NoHash /\ last.amount > 0
          /\ last.result \in {"ok", "replay"})
       => Cardinality(EventsWithHash(db, last.hash)) = 1
    /\ (last.op = "consume" /\ last.hash # NoHash /\ last.amount > 0
          /\ EventsWithHash(last.before, last.hash) # {})
       => /\ last.result = "replay"
          /\ last.event \in EventsWithHash(last.before, last.hash)
          /\ db = last.before

C1_Witness ==
    /\ last.op = "consume"
    /\ last.result = "replay"
    /\ last.hash # NoHash
    /\ db.events[last.event].action_hash = last.hash
    /\ OwnedCredit(db, last.user, last.type, last.at) > 0
    /\ \E i \in DOMAIN db.allowances : db.allowances[i].used > 0

\* C5: in a consume call an allowance's used grows only if every unexpired
\* rollover bucket of that user and credit type is at 0 afterwards; when the
\* buckets hold at least the amount, the buckets lose exactly the amount and no
\* allowance changes.
C5_RolloverFirst ==
    FreshConsume =>
        /\ (\E i \in DOMAIN last.before.allowances :
                last.session.allowances[i].used > last.before.allowances[i].used)
           => \A b \in LiveBuckets(last.session, last.user, last.type, last.at) :
                  last.session.buckets[b].remain = 0
        /\ rollover_available(last.before, last.user, last.type, last.at) >= last.amount
           => /\ last.session.allowances = last.before.allowances
              /\ rollover_available(last.session, last.user, last.type, last.at)
                   = rollover_available(last.before, last.user, last.type, last.at)
                       - last.amount

C5_Witness ==
    /\ FreshConsume
    /\ last.result = "ok"
    /\ rollover_available(last.before, last.user, last.type, last.at) > last.amount
    /\ rollover_available(db, last.user, last.type, last.at)
         = rollover_available(last.before, last.user, last.type, last.at) - last.amount
    /\ \E i \in DOMAIN db.allowances :
           /\ db.allowances[i].user = last.user
           /\ db.allowances[i].type = last.type
           /\ NotExpired(db.allowances[i], last.at)
           /\ db.allowances[i].total - db.allowances[i].used > 0
           /\ db.allowances[i] = last.before.allowances[i]

NewBuckets(before, after, a) ==
    {b \in DOMAIN after.buckets :
        b > Len(before.buckets) /\ after.buckets[b].allowance_id = a}

\* C6: activate_plan for a user who holds an allowance of that plan and a
\* one-cycle credit type (BC, RC) makes one new rollover bucket whose remain is
\* the prior total - used when that is > 0 (none otherwise), and resets the
\* allowance to used = 0 and total = the plan's quota.
C6_ActivationRollsOver ==
    last.op = "activate_plan" =>
        \A i \in DOMAIN last.before.allowances :
            LET a == last.before.allowances[i]
                quota == IF a.type = "BC" THEN DEFAULT_PLAN_SEEDS[last.type].bc_monthly
                         ELSE DEFAULT_PLAN_SEEDS[last.type].rc_monthly
            IN  (a.user = last.user /\ a.plan = last.type /\ a.type \in {"BC", "RC"})
                => /\ db.allowances[i].used = 0
                   /\ db.allowances[i].total = quota
                   /\ IF a.total - a.used > 0
                      THEN /\ Cardinality(NewBuckets(last.before, db, i)) = 1
                           /\ \A b \in NewBuckets(last.before, db, i) :
                                  /\ db.buckets[b].remain = a.total - a.used
                                  /\ db.buckets[b].user = last.user
                      ELSE NewBuckets(last.before, db, i) = {}

C6_Witness ==
    /\ last.op = "activate_plan"
    /\ \E i \in DOMAIN last.before.allowances :
           /\ last.before.allowances[i].total = 400
           /\ last.before.allowances[i].used = 150
           /\ \E b \in NewBuckets(last.before, db, i) : db.buckets[b].remain = 250
           /\ db.allowances[i].used = 0
           /\ db.allowances[i].total = 400

PaygCase ==
    /\ FreshConsume
    /\ last.allow_payg
    /\ LET sub == get_primary_subscription(last.before, last.user)
       IN  /\ sub # 0
           /\ last.before.subs[sub].plan # "Free"
           /\ last.before.subs[sub].payg_enabled
    /\ OwnedCredit(last.before, last.user, last.type, last.at) < last.amount

\* C8: a consume of amount A with allow_payg by a user whose subscription is not
\* Free and has PAYG enabled, when the owned pools cover only D < A, succeeds,
\* appends one ConsumptionEvent and creates exactly one OverageCharge, pending,
\* of amount A - D.
C8_PaygFallback ==
    PaygCase =>
        LET D == OwnedCredit(last.before, last.user, last.type, last.at)
        IN  /\ last.result = "ok"
            /\ last.total_deducted = D
            /\ Len(db.events) = Len(last.before.events) + 1
            /\ db.events[Len(db.events)].amount = last.amount
            /\ db.events[Len(db.events)].payg_charge_id = Len(db.charges)
            /\ Len(db.charges) = Len(last.before.charges) + 1
            /\ db.charges[Len(db.charges)] =
                   [user |-> last.user, metric |-> last.type,
                    amount |-> last.amount - D, status |-> "pending"]
            /\ \A c \in DOMAIN last.before.charges :
                   db.charges[c] = last.before.charges[c]

C8_Witness ==
    /\ PaygCase
    /\ last.type = "Usage"
    /\ last.amount = 40
    /\ OwnedCredit(last.before, last.user, last.type, last.at) = 0
    /\ db.charges[Len(db.charges)].amount = 40
    /\ db.charges[Len(db.charges)].status = "pending"

\* C9: would_consume changes no row: the database after the call is the
\* database before it.
C9_WouldConsumeReadOnly ==
    last.op = "would_consume" => db = last.before

C9_Witness ==
    /\ last.op = "would_consume"
    /\ last.result = "ok"
    /\ last.rollover > 0
    /\ last.available > last.rollover
    /\ Len(db.events) > 0

C3_UsedWithinTotal ==
    \A i \in DOMAIN db.allowances :
        0 <= db.allowances[i].used /\ db.allowances[i].used <= db.allowances[i].total

AutofixEvents(d, u, day) ==
    {i \in DOMAIN d.events :
        d.events[i].user = u /\ d.events[i].day = day /\ d.events[i].autofix_applied}

AutofixConsumed(d, u, day) ==
    IF AutofixRow(d, u, day) = 0 THEN 0 ELSE d.autofix[AutofixRow(d, u, day)].consumed

FreeShortfall ==
    /\ FreshConsume
    /\ LET sub == get_primary_subscription(last.before, last.user)
       IN  sub # 0 /\ last.before.subs[sub].plan = "Free"
    /\ OwnedCredit(last.before, last.user, last.type, last.at) < last.amount

-----------------------------------------------------------------------------
(* Properties of concurrent requests *)

Finished(s) == sess[s].pc = "done" /\ sess[s].amount > 0

\* two requests that carried the same non-empty action_hash
SameHashPair(s, t) ==
    /\ s # t
    /\ Finished(s) /\ Finished(t)
    /\ sess[s].hash # NoHash
    /\ sess[s].hash = sess[t].hash

\* C2: of two concurrent consume calls with the same action_hash, at most one
\* commits a ConsumptionEvent with that hash, and the pools are deducted at most
\* once: the call that does not commit its event changes no pool.
C2_SameHashCommitsOnce ==
    /\ Cardinality(EventsWithHash(db, H1)) <= 1
    /\ \A s, t \in Sessions :
           SameHashPair(s, t) =>
               /\ ~(sess[s].result = "ok" /\ sess[t].result = "ok")
               /\ sess[s].result # "ok" => sess[s].applied = 0
               /\ sess[s].applied > 0 => sess[t].applied = 0

\* both calls passed the lookup, one committed, the other hit the constraint
C2_Witness ==
    \E s, t \in Sessions :
        /\ SameHashPair(s, t)
        /\ sess[s].result = "ok" /\ sess[s].applied = 150
        /\ sess[t].result = "integrity_error" /\ sess[t].total_deducted = 150
        /\ Cardinality(EventsWithHash(db, H1)) = 1

\* the clamp of Step 2 acted in a committed call: it filled an allowance
C3_Witness ==
    \E s \in Sessions, i \in DOMAIN db.allowances :
        /\ sess[s].result = "ok"
        /\ <<i, db.allowances[i].total>> \in sess[s].awrites
        /\ db.allowances[i].used = db.allowances[i].total
        /\ sess[s].amount > db.allowances[i].total

\* two requests of one user on one credit type with different action hashes,
\* both returned
DifferentHashPair(s, t) ==
    /\ s # t
    /\ Finished(s) /\ Finished(t)
    /\ sess[s].result = "ok" /\ sess[t].result = "ok"
    /\ sess[s].user = sess[t].user /\ sess[s].type = sess[t].type
    /\ (sess[s].hash # sess[t].hash \/ sess[s].hash = NoHash)

\* C4: for two concurrent consume calls of one user on one credit type with
\* different action hashes, the sum of the two total_deducted equals the
\* committed decrease of the user's pools.
C4_NoLostUpdate ==
    \A s, t \in Sessions :
        DifferentHashPair(s, t) =>
            sess[s].total_deducted + sess[t].total_deducted
                = sess[s].applied + sess[t].applied

-----------------------------------------------------------------------------
(* Properties of retries *)

\* C11: over all attempts of one consume call retried with the same action_hash,
\* failed ones (AllowanceExhaustedError, AutoFixLimitExceeded) included, the
\* units taken from the user's committed pools never exceed the requested
\* amount; a failed attempt takes none and leaves no event behind.
C11_RetryNeverOvercharges ==
    /\ \A u \in Users, k \in RetryKeys : hist[u, k].deducted <= k[2]
    /\ (last.op = "consume" /\ last.hash # NoHash
          /\ last.result \in {"exhausted", "autofix_limit"})
       => /\ db = last.before
          /\ EventsWithHash(db, last.hash) = {}

\* a call that failed, was retried after more credit arrived and succeeded
C11_Witness ==
    \E u \in Users, k \in RetryKeys :
        /\ hist[u, k].failed
        /\ hist[u, k].deducted = k[2]
        /\ last.op = "consume" /\ last.result = "ok" /\ last.hash = k[3]
        /\ last.total_deducted = k[2]

-----------------------------------------------------------------------------
(* Properties of plan activation *)

\* the balance would_consume reports per credit type
AvailableByType(d, u, tnow) == [t \in Types |-> OwnedCredit(d, u, t, tnow)]

\* C12: activate_plan called again for the same user and plan, right after a
\* first call and with no consumption in between, leaves the subscriptions, the
\* allowances, the rollover buckets and the available balance per credit type
\* as the first call left them.
C12_ActivateIdempotent ==
    last.op = "activate_plan" =>
        LET twice == activate_plan(db, last.user, last.type, <<"migration", 0>>, last.at)
        IN  /\ twice.subs = db.subs
            /\ twice.allowances = db.allowances
            /\ twice.buckets = db.buckets
            /\ AvailableByType(twice, last.user, last.at)
                 = AvailableByType(db, last.user, last.at)

PrimaryRows(d, u) == {i \in DOMAIN d.subs : d.subs[i].user = u /\ d.subs[i].is_primary}

\* C13: after any sequence or interleaving of successful activate_plan calls a
\* user has at least one subscription and at most one row with is_primary true.
C13_OnePrimarySubscription ==
    \A u \in ActUsers :
        /\ Cardinality(PrimaryRows(db, u)) <= 1
        /\ (\E s \in Sessions : sess[s].pc = "done" /\ sess[s].result = "ok"
                                  /\ sess[s].user = u /\ sess[s].plan # NoPlan)
           => \E i \in DOMAIN db.subs : db.subs[i].user = u

-----------------------------------------------------------------------------
(* Properties of the shortfall *)

\* C14: a consume call that returns and is not a replay accounts for the whole
\* amount: total_deducted = amount, or an Auto-fix grant was recorded, or an
\* OverageCharge of amount - total_deducted was created; a call that does
\* neither raises AllowanceExhaustedError or AutoFixLimitExceeded, and then no
\* event, grant or charge is written.
C14_ShortfallAccounted ==
    FreshConsume =>
        /\ last.result \in {"ok", "exhausted", "autofix_limit"}
        /\ last.result = "ok" =>
              /\ last.event = Len(db.events)
              /\ Len(db.events) = Len(last.before.events) + 1
              /\ \/ /\ last.total_deducted = last.amount
                    /\ last.autofix = 0 /\ last.charge = 0
                 \/ /\ last.total_deducted < last.amount
                    /\ last.autofix # 0 /\ last.charge = 0
                    /\ db.events[last.event].autofix_applied
                    /\ AutofixConsumed(db, last.user, last.at)
                         = AutofixConsumed(last.before, last.user, last.at) + 1
                 \/ /\ last.total_deducted < last.amount
                    /\ last.autofix = 0 /\ last.charge = Len(db.charges)
                    /\ Len(db.charges) = Len(last.before.charges) + 1
                    /\ db.charges[last.charge].amount = last.amount - last.total_deducted
        /\ last.total_deducted
             = PoolUnits(last.before, last.user, last.type)
                 - PoolUnits(last.session, last.user, last.type)
        /\ last.result # "ok" =>
              /\ last.total_deducted < last.amount
              /\ db = last.before

\* a shortfall covered by the Auto-fix grant after a partial deduction
C14_Witness ==
    /\ FreshConsume
    /\ last.result = "ok"
    /\ last.total_deducted > 0
    /\ last.total_deducted < last.amount
    /\ last.autofix # 0

-----------------------------------------------------------------------------
(* Properties of the quantity checks *)

\* C15: consume and would_consume with amount <= 0 and grant_allowance with
\* total <= 0 fail with an error and create or change no allowance, bucket,
\* counter, event or charge, in the database or in the caller's session.
C15_NonPositiveRejected ==
    (last.op \in {"consume", "would_consume", "grant_allowance"} /\ last.amount <= 0)
    => /\ last.result = "invalid"
       /\ db = last.before
       /\ last.op \in {"consume", "grant_allowance"} => last.session = last.before

\* a negative amount refused while the user had credit to take
C15_Witness ==
    /\ last.op = "consume"
    /\ last.amount < 0
    /\ last.result = "invalid"
    /\ OwnedCredit(db, last.user, last.type, last.at) > 0
    /\ Len(db.events) > 0

\* The RECHARGE transactions, by id
RechargeTxs(d) == {i \in DOMAIN d.txs : d.txs[i].type = "recharge"}

\* C16: every credit made by PointsService.recharge belongs to a Payment of
\* that user for that package for which the provider reported a completed
\* payment: each RECHARGE transaction is the point transaction of such a
\* Payment.
C16_RechargeOnlyAfterConfirmedPayment ==
    \A i \in RechargeTxs(db) :
        \E p \in DOMAIN db.payments :
            /\ db.payments[p].point_transaction_id = i
            /\ db.payments[p].user = db.txs[i].user
            /\ db.payments[p].points = db.txs[i].change
            /\ db.payments[p].confirmed

\* The latest call was a success notification or a capture that found the
\* payment and reached the success handler
SuccessHandled ==
    /\ last.op \in {"payment_success", "paypal_capture"}
    /\ last.amount # 0
    /\ last.result \in {"processed", "already_processed"}

\* C17: a payment is credited at most once over any sequence of success and
\* failure notifications: recharge runs only for a payment that has no point
\* transaction yet, never twice for one payment, and a repeated success
\* notification either answers processed = false or reuses the stored point
\* transaction id, adding no transaction and no allowance.
C17_PaymentCreditedOnce ==
    /\ \A p \in DOMAIN db.payments : db.payments[p].credited <= 1
    /\ SuccessHandled =>
           LET b == last.before.payments[last.amount]
           IN  IF last.recharged
               THEN /\ b.credited = 0
                    /\ b.point_transaction_id = 0
                    /\ Len(db.txs) = Len(last.before.txs) + 1
                    /\ last.event = Len(db.txs)
               ELSE /\ db.txs = last.before.txs
                    /\ db.allowances = last.before.allowances
                    /\ \/ last.result = "already_processed"
                       \/ /\ b.point_transaction_id # 0
                          /\ last.event = b.point_transaction_id

\* A success notification after a failure notification of a credited payment:
\* the stored transaction id is reused and nothing is credited
C17_Witness ==
    /\ SuccessHandled
    /\ last.result = "processed"
    /\ ~last.recharged
    /\ last.before.payments[last.amount].status = "failed"
    /\ last.before.payments[last.amount].credited = 1
    /\ db.payments[last.amount].status = "succeeded"

\* C18: recharge for a known package raises the user's available BC balance by
\* exactly the package's points, through one new one-off BC allowance, and
\* records one RECHARGE transaction with change = points and the new balance;
\* for an unknown package it fails and changes nothing.
C18_RechargeGrantsPackage ==
    last.op = "recharge" =>
        IF last.type \in DOMAIN RECHARGE_PACKAGES_BY_ID
        THEN LET points == RECHARGE_PACKAGES_BY_ID[last.type].points
                 n == Len(last.before.allowances)
                 k == Len(last.before.txs)
             IN  /\ last.result = "ok"
                 /\ calculate_balance(db, last.user, last.at)
                        = calculate_balance(last.before, last.user, last.at) + points
                 /\ Len(db.allowances) = n + 1
                 /\ SubSeq(db.allowances, 1, n) = last.before.allowances
                 /\ db.allowances[n + 1].user = last.user
                 /\ db.allowances[n + 1].type = "BC"
                 /\ db.allowances[n + 1].total = points
                 /\ db.allowances[n + 1].used = 0
                 /\ db.allowances[n + 1].expires_at = Null
                 /\ db.buckets = last.before.buckets
                 /\ Len(db.txs) = k + 1
                 /\ SubSeq(db.txs, 1, k) = last.before.txs
                 /\ db.txs[k + 1].user = last.user
                 /\ db.txs[k + 1].type = "recharge"
                 /\ db.txs[k + 1].change = points
                 /\ db.txs[k + 1].balance_after
                        = calculate_balance(db, last.user, last.at)
        ELSE /\ last.result = "invalid"
             /\ db = last.before

\* A recharge of a known package by a user who already holds BC credit, part
\* of it consumed
C18_Witness ==
    /\ last.op = "recharge"
    /\ last.result = "ok"
    /\ calculate_balance(last.before, last.user, last.at) > 0
    /\ Len(last.before.events) > 0
    /\ calculate_balance(db, last.user, last.at)
           = calculate_balance(last.before, last.user, last.at) + 500

C20_TransitionKeepsCredit ==
    last.op = "activate_plan" =>
        \A t \in {"BC", "RC"} :
            OwnedCredit(db, last.user, t, last.at)
                >= OwnedCredit(last.before, last.user, t, last.at)

\* A move to another plan by a user who still holds part of the old plan's
\* BC, the rest consumed
C20_Witness ==
    /\ last.op = "activate_plan"
    /\ \E i \in DOMAIN last.before.subs :
           /\ last.before.subs[i].user = last.user
           /\ last.before.subs[i].plan # last.type
    /\ \E i \in DOMAIN last.before.allowances :
           /\ last.before.allowances[i].user = last.user
           /\ last.before.allowances[i].type = "BC"
           /\ last.before.allowances[i].plan \notin {last.type, NoPlan}
           /\ last.before.allowances[i].used > 0
           /\ NotExpired(last.before.allowances[i], last.at)
    /\ OwnedCredit(last.before, last.user, "BC", last.at) > 0

-----------------------------------------------------------------------------
(* Properties of the drain order and of the ledger rows *)

\* the rows of a table that the session of the latest consume call changed
DecreasedBuckets ==
    {i \in DOMAIN last.before.buckets :
        last.session.buckets[i].remain < last.before.buckets[i].remain}

IncrementedAllowances ==
    {i \in DOMAIN last.before.allowances :
        last.session.allowances[i].used > last.before.allowances[i].used}

\* C21: rollover buckets are drained soonest-expiring first, no expiry last,
\* ties by oldest creation: after a consume call, whenever a bucket B2 was
\* decreased, every non-expired bucket B1 of that user and credit type that
\* sorts before B2 has remain = 0.
C21_BucketsDrainedInOrder ==
    last.op = "consume" =>
        \A b2 \in DecreasedBuckets :
            \A b1 \in LiveBuckets(last.before, last.user, last.type, last.at) :
                SortsBefore(last.before.buckets, b1, b2)
                    => last.session.buckets[b1].remain = 0

\* A consume that emptied an earlier bucket and went on into a later one
C21_Witness ==
    /\ last.op = "consume"
    /\ last.result = "ok"
    /\ \E b1, b2 \in DecreasedBuckets :
           /\ SortsBefore(last.before.buckets, b1, b2)
           /\ db.buckets[b1].remain = 0
           /\ db.buckets[b2].remain > 0

LiveAllowances(d, u, t, tnow) ==
    {i \in DOMAIN d.allowances :
        d.allowances[i].user = u /\ d.allowances[i].type = t
        /\ NotExpired(d.allowances[i], tnow)}

\* C22: current-cycle allowances are drained soonest-expiring first, those
\* without expiry last, ties by oldest creation: after a consume call, whenever
\* an allowance A2 had its used incremented, every non-expired allowance A1 of
\* that user and credit type that sorts before A2 has used = total.
C22_AllowancesDrainedInOrder ==
    last.op = "consume" =>
        \A a2 \in IncrementedAllowances :
            \A a1 \in LiveAllowances(last.before, last.user, last.type, last.at) :
                SortsBefore(last.before.allowances, a1, a2)
                    => last.session.allowances[a1].used = last.session.allowances[a1].total

\* A consume that used up a plan allowance and went on into a one-off
\* allowance without expiry that had been created before it
C22_Witness ==
    /\ last.op = "consume"
    /\ last.result = "ok"
    /\ \E a1, a2 \in IncrementedAllowances :
           /\ a2 < a1
           /\ db.allowances[a2].expires_at = Null
           /\ db.allowances[a1].expires_at # Null
           /\ SortsBefore(last.before.allowances, a1, a2)
           /\ db.allowances[a1].used = db.allowances[a1].total

\* C23: a rollover bucket created at activation takes its expiry from the
\* rollover policy, counted from the start of the new cycle: a one-cycle bucket
\* created by activate_plan at time t expires at t + 30 days.
C23_OneCycleBucketExpiry ==
    last.op = "activate_plan" =>
        \A b \in DOMAIN db.buckets :
            (b > Len(last.before.buckets)
               /\ db.allowances[db.buckets[b].allowance_id].rollover_policy = "1_cycle")
            => db.buckets[b].expires_at = last.at + OneCycleDays

\* the allowances of policy none that the latest activate_plan renewed
RenewedWithoutRollover ==
    {i \in DOMAIN last.before.allowances :
        /\ last.before.allowances[i].user = last.user
        /\ last.before.allowances[i].plan = last.type
        /\ last.before.allowances[i].type = "Usage"}

\* C24: under rollover policy none no bucket is created: when activate_plan
\* renews the Usage allowance, no bucket is added for it, what was left of it
\* is forfeited (of this allowance only the new total is available afterwards),
\* and the allowance is reset to used = 0 with the new total.
C24_NoRolloverUnderNone ==
    last.op = "activate_plan" =>
        \A i \in RenewedWithoutRollover :
            /\ NewBuckets(last.before, db, i) = {}
            /\ \A b \in DOMAIN db.buckets :
                   db.allowances[db.buckets[b].allowance_id].type # "Usage"
            /\ db.allowances[i].rollover_policy = "none"
            /\ db.allowances[i].used = 0
            /\ db.allowances[i].total = UsageTotal(DEFAULT_PLAN_SEEDS[last.type])
            /\ db.allowances[i].expires_at = last.at + PeriodDays
            /\ OwnedCredit(db, last.user, "Usage", last.at)
                   = OwnedCredit(last.before, last.user, "Usage", last.at)
                     - (IF NotExpired(last.before.allowances[i], last.at)
                        THEN AllowanceAvailable(last.before.allowances[i]) ELSE 0)
                     + db.allowances[i].total

\* The renewal of a Usage allowance that was partly consumed and not expired
C24_Witness ==
    /\ last.op = "activate_plan"
    /\ \E i \in RenewedWithoutRollover :
           /\ last.before.allowances[i].used > 0
           /\ last.before.allowances[i].used < last.before.allowances[i].total
           /\ NotExpired(last.before.allowances[i], last.at)
           /\ db.allowances[i].used = 0

\* the allowance the latest consume call incremented last: the one that sorts
\* after every other incremented one; 0 when it incremented none
LastIncremented ==
    IF IncrementedAllowances = {} THEN 0
    ELSE CHOOSE a \in IncrementedAllowances :
             \A o \in IncrementedAllowances \ {a} :
                 SortsBefore(last.before.allowances, o, a)

\* C25: a successful consume call that is not a replay appends exactly one
\* ConsumptionEvent: its amount is the requested amount, its allowance_id the
\* allowance whose used was incremented last in the call (none when only
\* buckets, Auto-fix or PAYG covered it), autofix_applied tells whether the
\* day's Auto-fix counter was raised and payg_charge_id names the charge the
\* call created, if any; a call that fails or is a replay appends no event.
C25_OneEventPerConsume ==
    last.op = "consume" =>
        IF last.result = "ok"
        THEN LET n == Len(last.before.events)
                 e == db.events[n + 1]
             IN  /\ Len(db.events) = n + 1
                 /\ SubSeq(db.events, 1, n) = last.before.events
                 /\ last.event = n + 1
                 /\ e.user = last.user
                 /\ e.allowance_type = last.type
                 /\ e.amount = last.amount
                 /\ e.allowance_id = LastIncremented
                 /\ e.autofix_applied
                        = (AutofixConsumed(db, last.user, last.at)
                             = AutofixConsumed(last.before, last.user, last.at) + 1)
                 /\ e.autofix_applied \/ db.autofix = last.before.autofix
                 /\ e.payg_charge_id
                        = (IF Len(db.charges) > Len(last.before.charges)
                           THEN Len(db.charges) ELSE 0)
                 /\ Len(db.charges) <= Len(last.before.charges) + 1
                 /\ last.hash # NoHash => e.action_hash = last.hash
        ELSE db.events = last.before.events

\* A consume that used up one allowance, went on into a second one and was
\* covered for the rest: the event names the second allowance
C25_Witness ==
    /\ last.op = "consume"
    /\ last.result = "ok"
    /\ Cardinality(IncrementedAllowances) = 2
    /\ db.events[Len(db.events)].allowance_id = LastIncremented
    /\ LastIncremented # 0
    /\ \E a \in IncrementedAllowances : a > LastIncremented

\* C26: for a user whose primary subscription is the Free plan, an unmet
\* remainder of any size is covered whole by one Auto-fix grant: the owned
\* credit is drained, the day's counter rises by exactly 1 and no OverageCharge
\* is created although the subscription has PAYG enabled; with the counter at
\* its limit the call fails with AutoFixLimitExceeded, creates no charge and
\* changes nothing.
C26_FreeRemainderWaived ==
    FreeShortfall =>
        LET sub == get_primary_subscription(last.before, last.user)
            owned == OwnedCredit(last.before, last.user, last.type, last.at)
            counter == AutofixConsumed(last.before, last.user, last.at)
        IN  /\ last.before.subs[sub].payg_enabled
            /\ db.charges = last.before.charges
            /\ last.charge = 0
            /\ IF counter < auto_fix_daily_limit
               THEN /\ last.result = "ok"
                    /\ last.total_deducted = owned
                    /\ OwnedCredit(db, last.user, last.type, last.at) = 0
                    /\ AutofixConsumed(db, last.user, last.at) = counter + 1
                    /\ db.events[Len(db.events)].autofix_applied
                    /\ db.events[Len(db.events)].payg_charge_id = 0
               ELSE /\ last.result = "autofix_limit"
                    /\ db = last.before

\* A Free user who allows PAYG and is short by less than the request is
\* covered by a grant; and one at the limit is refused without a charge
C26_Witness ==
    /\ FreeShortfall
    /\ last.allow_payg
    /\ last.result = "ok"
    /\ last.total_deducted > 0
    /\ last.total_deducted < last.amount
    /\ AutofixConsumed(db, last.user, last.at) >= 2
    /\ db.charges = <<>>

\* the latest call was a fresh consume that the owned pools could not cover
Shortfall ==
    /\ FreshConsume
    /\ OwnedCredit(last.before, last.user, last.type, last.at) < last.amount

\* the user's subscriptions that are primary and active or trialing
ActivePrimary(d, u) ==
    {i \in DOMAIN d.subs :
        d.subs[i].user = u /\ d.subs[i].is_primary
        /\ d.subs[i].status \in {"active", "trialing"}}

\* PAYG is permitted to the latest call: an active or trialing primary
\* subscription, not of the Free plan, with payg_enabled, and the caller allows
PaygPermitted ==
    /\ last.allow_payg
    /\ \E i \in ActivePrimary(last.before, last.user) :
           /\ last.before.subs[i].plan # "Free"
           /\ last.before.subs[i].payg_enabled

NotFreePlan ==
    \A i \in ActivePrimary(last.before, last.user) : last.before.subs[i].plan # "Free"

\* C27: an OverageCharge is created only when PAYG is permitted: a consume
\* call with an unmet remainder by a user with no active or trialing primary
\* subscription, or whose subscription has payg_enabled = false, or with
\* allow_payg = false (the plan not being Free) fails with
\* AllowanceExhaustedError and leaves the OverageCharge rows, and every other
\* row, as they were; and no consume call adds a charge without the permission.
C27_ChargeOnlyWhenPermitted ==
    /\ (Shortfall /\ NotFreePlan /\ ~PaygPermitted)
           => /\ last.result = "exhausted"
              /\ last.charge = 0
              /\ db = last.before
    /\ (last.op = "consume" /\ db.charges # last.before.charges)
           => Shortfall /\ PaygPermitted

\* A refused shortfall of a user whose subscription has PAYG enabled but is
\* canceled, the caller allowing PAYG and part of the amount being owned
C27_Witness ==
    /\ Shortfall
    /\ last.allow_payg
    /\ last.result = "exhausted"
    /\ OwnedCredit(last.before, last.user, last.type, last.at) > 0
    /\ \E i \in DOMAIN last.before.subs :
           /\ last.before.subs[i].user = last.user
           /\ last.before.subs[i].plan = "Pro"
           /\ last.before.subs[i].status = "canceled"
           /\ last.before.subs[i].is_primary
           /\ last.before.subs[i].payg_enabled

\* a step that leaves every ConsumptionEvent and OverageCharge there was as it
\* was, and every charge pending
AppendOnlyStep ==
    /\ Len(db'.events) >= Len(db.events)
    /\ SubSeq(db'.events, 1, Len(db.events)) = db.events
    /\ Len(db'.charges) >= Len(db.charges)
    /\ SubSeq(db'.charges, 1, Len(db.charges)) = db.charges
    /\ \A i \in DOMAIN db'.charges : db'.charges[i].status = "pending"

\* C28: ConsumptionEvent and OverageCharge rows are append-only: no ledger
\* operation (consume, would_consume, grant_allowance, revoke_allowance,
\* activate_plan, grant_daily_autofix_bc, cleanup_autofix_counters,
\* record_usage) changes or deletes an existing event or charge, and every
\* charge stays pending.
C28_LedgerAppendOnly == [][AppendOnlyStep]_vars

\* The maintenance job run a day after a consume left an event of an Auto-fix
\* cover, whose counter it purges; and rows left under later operations
C28_Witness ==
    /\ last.op = "reset_autofix"
    /\ Len(last.before.autofix) > Len(db.autofix)
    /\ \E i \in DOMAIN db.events : db.events[i].autofix_applied /\ db.events[i].day < now

\* a step that lowers an allowance's used only in activate_plan, and raises no
\* bucket's remain
MonotoneStep ==
    /\ \A i \in DOMAIN db.allowances :
           /\ i \in DOMAIN db'.allowances
           /\ db'.allowances[i].used < db.allowances[i].used => last'.op = "activate_plan"
    /\ \A b \in DOMAIN db.buckets :
           /\ b \in DOMAIN db'.buckets
           /\ db'.buckets[b].remain <= db.buckets[b].remain

\* C29: used never decreases within a cycle and remain never increases:
\* consume lowers no allowance's used and raises no bucket's remain, and the
\* only operation that lowers used is the reset of activate_plan;
\* grant_allowance, revoke_allowance, would_consume and the daily Auto-fix
\* grant never lower it.
C29_UsedAndRemainMonotone == [][MonotoneStep]_vars

\* a step that keeps every rollover bucket in the store as the row it was,
\* leaves no remain below 0 and a drained bucket at 0
BucketsKeptStep ==
    /\ \A b \in DOMAIN db.buckets :
           /\ b \in DOMAIN db'.buckets
           /\ db'.buckets[b].user = db.buckets[b].user
           /\ db'.buckets[b].allowance_id = db.buckets[b].allowance_id
           /\ db.buckets[b].remain = 0 => db'.buckets[b].remain >= 0
    /\ \A b \in DOMAIN db'.buckets : db'.buckets[b].remain >= 0

\* C30: every rollover bucket has remain >= 0 in every reachable state, and no
\* ledger operation deletes a bucket: a bucket drained to 0 stays in the store
\* and is never decremented again.
C30_BucketsNeverNegativeNorDeleted == [][BucketsKeptStep]_vars

\* A consume that spent credit while a bucket drained earlier was still in the
\* store, at 0 before and after
C30_Witness ==
    /\ last.op = "consume"
    /\ last.result = "ok"
    /\ last.total_deducted > 0
    /\ \E b \in DOMAIN last.before.buckets :
           /\ last.before.buckets[b].user = last.user
           /\ last.before.buckets[b].remain = 0
           /\ last.before.buckets[b].expires_at > last.at
           /\ db.buckets[b] = last.before.buckets[b]

\* The ledgers a later consume of user u may find after a revocation: the one
\* the revocation left, and that one after the day's Auto-fix grant or after an
\* activation of a plan
LedgersAfterRevoke(d, u, tnow) ==
    {d, grant_daily_autofix_bc(d, u, tnow)}
        \cup {activate_plan(d, u, p, <<"migration", 0>>, tnow) : p \in LedgerPlans}

\* the amounts of the later consume calls
RevokeAmounts == {1, 150, 450}

\* C31: revoke_allowance expires the allowance at once without deleting it:
\* after revoke_allowance(a) the row of a is still there with the total and the
\* used it had, its remaining balance no longer counts in would_consume, and no
\* later consume call changes a.used.
C31_RevokedAllowanceInert ==
    last.op = "revoke_allowance" =>
        LET i == last.amount
            a == db.allowances[i]
            was == last.before.allowances[i]
            counted == IF NotExpired(was, last.at) THEN AllowanceAvailable(was) ELSE 0
        IN  /\ Len(db.allowances) = Len(last.before.allowances)
            /\ a.total = was.total
            /\ a.used = was.used
            /\ would_consume(db, a.user, a.type, 1, now).available
                   = would_consume(last.before, a.user, a.type, 1, now).available - counted
            /\ \A d \in LedgersAfterRevoke(db, a.user, now), amount \in RevokeAmounts,
                  allow_payg \in BOOLEAN :
                   AfterConsume(d, consume(d, a.user, a.type, amount, NoHash, allow_payg, now))
                       .allowances[i].used = d.allowances[i].used

\* C32: would_consume returns the available balance: its first result is the
\* sum of max(total - used, 0) over the user's non-expired allowances of the
\* credit type plus the sum of remain over the user's non-expired rollover
\* buckets of that type, its second result is that rollover sum; expired
\* allowances and buckets contribute nothing.
C32_WouldConsumeReportsBalance ==
    (last.op = "would_consume" /\ last.result = "ok") =>
        LET d == last.before
            A == {i \in DOMAIN d.allowances :
                     /\ d.allowances[i].user = last.user
                     /\ d.allowances[i].type = last.type
                     /\ (d.allowances[i].expires_at = Null
                            \/ d.allowances[i].expires_at > last.at)}
            B == {i \in DOMAIN d.buckets :
                     /\ d.buckets[i].user = last.user
                     /\ d.allowances[d.buckets[i].allowance_id].type = last.type
                     /\ (d.buckets[i].expires_at = Null \/ d.buckets[i].expires_at > last.at)}
            owned == SumOver([i \in A |-> IF d.allowances[i].total > d.allowances[i].used
                                          THEN d.allowances[i].total - d.allowances[i].used
                                          ELSE 0], A)
            rolled == SumOver([i \in B |-> d.buckets[i].remain], B)
        IN  /\ last.available = owned + rolled
            /\ last.rollover = rolled

\* A pre-check that counted a live bucket and a live allowance while a bucket
\* of the user and type with credit left had expired
C32_Witness ==
    /\ last.op = "would_consume"
    /\ last.result = "ok"
    /\ last.rollover > 0
    /\ last.available > last.rollover
    /\ \E b \in DOMAIN db.buckets :
           /\ db.buckets[b].user = last.user
           /\ db.allowances[db.buckets[b].allowance_id].type = last.type
           /\ db.buckets[b].remain > 0
           /\ db.buckets[b].expires_at # Null
           /\ db.buckets[b].expires_at <= last.at

\* the raw values of the readings of a key, added up
RECURSIVE ReadingsTotal(_, _)
ReadingsTotal(readings, key) ==
    IF readings = <<>> THEN 0
    ELSE (IF Head(readings).key = key THEN Head(readings).value ELSE 0)
             + ReadingsTotal(Tail(readings), key)

\* C33: the usage summary is additive and unique per key: after any sequence of
\* record_usage calls there is exactly one UsageSummary per (workspace, metric,
\* period) that was reported, its value is the sum of the raw values of all
\* readings with that key, and there is one UsageMeterReading per call.
C33_UsageSummaryAdditive ==
    /\ \A key \in UsageKeys :
           LET S == {i \in DOMAIN db.summaries : db.summaries[i].key = key}
           IN  /\ Cardinality(S) <= 1
               /\ \A i \in S : db.summaries[i].value = ReadingsTotal(db.readings, key)
               /\ (\E j \in DOMAIN db.readings : db.readings[j].key = key) => S # {}
    /\ (last.op = "record_usage" /\ last.result = "ok") =>
           /\ Len(db.readings) = Len(last.before.readings) + 1
           /\ \E i \in DOMAIN db.summaries : db.summaries[i].key = last.key

\* C34: the maintenance job is safe beside live consumption:
\* cleanup_autofix_counters(today) deletes only counters of days before today
\* and never the current day's, so that however reset_autofix interleaves with
\* consume calls the Auto-fix covers a user receives on one day never exceed
\* the daily limit, and the job lowers no allowance's used.
C34_JobSafeBesideConsume ==
    /\ \A u \in Users : Cardinality(AutofixEvents(db, u, now)) <= auto_fix_daily_limit
    /\ last.op = "reset_autofix" =>
           /\ \A i \in DOMAIN last.before.autofix :
                  last.before.autofix[i].date_key >= last.at =>
                      AutofixConsumed(db, last.before.autofix[i].user,
                                      last.before.autofix[i].date_key)
                          >= last.before.autofix[i].consumed
           /\ \A i \in DOMAIN last.before.allowances :
                  db.allowances[i].used >= last.before.allowances[i].used

\* C35: the daily Auto-fix cap holds under concurrency: however concurrent
\* consume calls of one Free-plan user on one day interleave, the calls that
\* succeed through an Auto-fix grant never exceed the daily limit, and the day's
\* counter row has consumed <= limit and equal to the number of those calls.
C35_AutofixCapUnderConcurrency ==
    /\ \A i \in DOMAIN db.autofix : db.autofix[i].consumed <= db.autofix[i].limit
    /\ \A u \in Users :
           /\ Cardinality(AutofixEvents(db, u, now)) <= auto_fix_daily_limit
           /\ AutofixConsumed(db, u, now) = Cardinality(AutofixEvents(db, u, now))

\* C36: concurrent success notifications credit a payment once: however two
\* success handlers for the same payment interleave, exactly one recharge
\* allowance and one RECHARGE PointTransaction are created for that payment.
C36_ConcurrentSuccessCreditsOnce ==
    /\ \A p \in DOMAIN db.payments :
           /\ db.payments[p].credited <= 1
           /\ db.payments[p].status = "succeeded" => db.payments[p].credited = 1
    /\ Cardinality(RechargeTxs(db)) <= Len(db.payments)
    /\ Cardinality({i \in DOMAIN db.allowances : db.allowances[i].source[1] = "recharge"})
           <= Len(db.payments)

\* what consume returns when the latest call is made once more
Replayed ==
    consume(db, last.user, last.type, last.amount, last.hash, last.allow_payg, now)

\* C37: a replayed consume reports the original outcome: called again with the
\* action_hash of a call that succeeded, consume returns the same event and
\* the same total_deducted as the original call did, also when the original
\* was partly or wholly covered by PAYG or auto-fix.
C37_ReplayReportsOriginal ==
    (last.op = "consume" /\ last.result = "ok" /\ last.hash # NoHash) =>
        /\ Replayed.result = "replay"
        /\ Replayed.event = last.event
        /\ Replayed.total_deducted = last.total_deducted

\* C38: the idempotency key does not leak across users: every result consume
\* returns holds an event whose user and credit type are those of the call, so
\* a call by one user with an action_hash another user has used never returns
\* the other user's event.
C38_ResultEventIsTheCallers ==
    (last.op = "consume" /\ last.result \in {"ok", "replay"}) =>
        /\ last.event \in DOMAIN db.events
        /\ db.events[last.event].user = last.user
        /\ db.events[last.event].allowance_type = last.type

\* the consume that follows the latest pre-check with nothing in between
NextConsume(allow_payg) ==
    consume(db, last.user, last.type, last.amount, NoHash, allow_payg, now)

\* C39: the pre-check agrees with consume: when would_consume reports
\* available >= amount and nothing intervenes, the next consume of that user,
\* type and amount succeeds with total_deducted = amount, creates no
\* OverageCharge and no auto-fix grant, and lowers the reported available
\* balance by exactly amount.
C39_PreCheckAgreesWithConsume ==
    (last.op = "would_consume" /\ last.result = "ok" /\ last.available >= last.amount) =>
        \A allow_payg \in BOOLEAN :
            LET r == NextConsume(allow_payg)
                after == would_consume(AfterConsume(db, r), last.user, last.type,
                                       last.amount, now)
            IN  /\ r.result = "ok"
                /\ r.total_deducted = last.amount
                /\ r.charge = 0
                /\ r.autofix = 0
                /\ Len(r.session.charges) = Len(db.charges)
                /\ r.session.autofix = db.autofix
                /\ after.available = last.available - last.amount

\* A pre-check that reported enough credit held partly in a rollover bucket and
\* partly in an allowance, so that the consume after it draws from both
C39_Witness ==
    /\ last.op = "would_consume"
    /\ last.result = "ok"
    /\ last.available >= last.amount
    /\ last.rollover > 0
    /\ last.rollover < last.amount

\* the allowances of user u that carry the daily grant's source tag of a day
DailyRows(d, u, day) ==
    {i \in DOMAIN d.allowances :
        /\ d.allowances[i].user = u
        /\ d.allowances[i].source = <<"autofix_daily_bc", day>>}

\* C40: the daily Auto-fix BC grant is idempotent per user and day: however
\* many times it is called for a day, between consume calls, the user has at
\* most one allowance with that day's source tag and its total is
\* free_daily_bc; right after a grant there is exactly one, and what had been
\* consumed from it before the grant is still consumed.
C40_DailyGrantIdempotent ==
    /\ \A u \in Users, day \in 0..MaxTicks :
           /\ Cardinality(DailyRows(db, u, day)) <= 1
           /\ \A i \in DailyRows(db, u, day) :
                  /\ db.allowances[i].total = free_daily_bc
                  /\ db.allowances[i].type = "BC"
    /\ last.op = "grant_daily_autofix_bc" =>
           /\ Cardinality(DailyRows(db, last.user, last.at)) = 1
           /\ DailyRows(last.before, last.user, last.at) \subseteq DailyRows(db, last.user, last.at)
           /\ \A i \in DailyRows(last.before, last.user, last.at) :
                  db.allowances[i].used = last.before.allowances[i].used
    /\ last.op = "reset_autofix" =>
           \A u \in Users : \A i \in DailyRows(last.before, u, last.at) :
               /\ i \in DailyRows(db, u, last.at)
               /\ db.allowances[i].used = last.before.allowances[i].used

\* A second grant of the day, made after credit of the day's allowance was
\* consumed
C40_Witness ==
    /\ last.op = "grant_daily_autofix_bc"
    /\ \E i \in DailyRows(last.before, last.user, last.at) :
           /\ last.before.allowances[i].used > 0
           /\ \E e \in DOMAIN db.events : db.events[e].allowance_id = i

=============================================================================
